---- MODULE Spec2Model ----
(***************************************************************************)
(* Manifest store (SQLite table "files") and full-text index (Bleve) of    *)
(* the archiver: internal/db/db.go, internal/db/stub.go and the scanner    *)
(* that writes the manifest.                                               *)
(*                                                                         *)
(* Text is modelled as sequences of one-character strings so that LIKE,    *)
(* ORDER BY, filepath.Base/Ext, strings.ToLower and fmt.Sprintf("%d") are  *)
(* computed character by character.  A nullable SQL column is modelled as  *)
(* a sequence of length 0 (NULL) or 1 (the value).                         *)
(***************************************************************************)
EXTENDS Integers, Sequences, FiniteSets, TLC

VARIABLES schema, files, seq, now, config, index, order, pc, last,
          summariser, disk, tracker, interactive, uploader

\* the manifest store and the index engine
core == <<schema, files, seq, now, config, index, order, pc, last>>

\* the collaborators of the pipeline: summariser, stub creation, progress
\* tracker, interactive display and uploader
aux == <<summariser, disk, tracker, interactive, uploader>>

vars == <<schema, files, seq, now, config, index, order, pc, last,
          summariser, disk, tracker, interactive, uploader>>

(***************************************************************************)
(* Bounds of the model.                                                    *)
(***************************************************************************)
\* upper bound on the ids AUTOINCREMENT hands out (number of inserts)
MaxId == 2
\* upper bound on the wall clock read by time.Now()
MaxClock == 1
\* upper bound on the number of documents of the indexes searches run on
MaxDocs == 15
\* upper bound on the number of rows of the manifest concurrent callers share
MaxRows == 1

(***************************************************************************)
(* Characters and strings.                                                 *)
(***************************************************************************)
\* byte value of the characters the model uses (ASCII)
Ord(c) ==
  CASE c = " " -> 32 [] c = "%" -> 37 [] c = "." -> 46 [] c = "/" -> 47
    [] c = "0" -> 48 [] c = "1" -> 49 [] c = "2" -> 50 [] c = "3" -> 51
    [] c = "4" -> 52 [] c = "5" -> 53 [] c = "6" -> 54 [] c = "7" -> 55
    [] c = "8" -> 56 [] c = "9" -> 57
    [] c = "D" -> 68 [] c = "T" -> 84 [] c = "_" -> 95
    [] c = "d" -> 100 [] c = "f" -> 102 [] c = "g" -> 103 [] c = "h" -> 104
    [] c = "n" -> 110 [] c = "o" -> 111 [] c = "t" -> 116 [] c = "x" -> 120

\* strings.ToLower / SQLite's ASCII case folding, on one character
LowerChar(c) == CASE c = "D" -> "d" [] c = "T" -> "t" [] OTHER -> c

\* strings.ToLower
ToLower(s) == [i \in 1..Len(s) |-> LowerChar(s[i])]

\* memcmp order of two strings (SQLite BINARY collation): s < t
RECURSIVE StrLess(_, _)
StrLess(s, t) ==
  IF t = <<>> THEN FALSE
  ELSE IF s = <<>> THEN TRUE
  ELSE IF Ord(Head(s)) # Ord(Head(t)) THEN Ord(Head(s)) < Ord(Head(t))
  ELSE StrLess(Tail(s), Tail(t))

\* strings.HasSuffix(s, "/")
HasSuffixSlash(s) == Len(s) > 0 /\ s[Len(s)] = "/"

\* decimal digit of 0..9
Digit(n) ==
  CASE n = 0 -> "0" [] n = 1 -> "1" [] n = 2 -> "2" [] n = 3 -> "3"
    [] n = 4 -> "4" [] n = 5 -> "5" [] n = 6 -> "6" [] n = 7 -> "7"
    [] n = 8 -> "8" [] n = 9 -> "9"

\* fmt.Sprintf("%d", n) for n >= 0
RECURSIVE Itoa(_)
Itoa(n) == IF n < 10 THEN <<Digit(n)>> ELSE Itoa(n \div 10) \o <<Digit(n % 10)>>

\* index of the last "/" in s, 0 when there is none
RECURSIVE LastSlash(_)
LastSlash(s) ==
  IF s = <<>> THEN 0
  ELSE IF s[Len(s)] = "/" THEN Len(s)
  ELSE LastSlash(SubSeq(s, 1, Len(s) - 1))

\* s without its trailing slashes
RECURSIVE StripSlashes(_)
StripSlashes(s) ==
  IF Len(s) > 0 /\ s[Len(s)] = "/" THEN StripSlashes(SubSeq(s, 1, Len(s) - 1))
  ELSE s

\* filepath.Base
Base(path) ==
  IF path = <<>> THEN <<".">>
  ELSE LET p == StripSlashes(path) IN
       IF p = <<>> THEN <<"/">>
       ELSE SubSeq(p, LastSlash(p) + 1, Len(p))

\* filepath.Ext: the suffix that starts at the last dot of the last element
Ext(path) ==
  LET RECURSIVE scan(_)
      scan(i) == IF i < 1 \/ path[i] = "/" THEN <<>>
                 ELSE IF path[i] = "." THEN SubSeq(path, i, Len(path))
                 ELSE scan(i - 1)
  IN scan(Len(path))

\* SQLite's LIKE without ESCAPE: "%" is any run of characters, "_" is any
\* one character, every other character matches ASCII case-insensitively
RECURSIVE Like(_, _)
Like(pat, s) ==
  IF pat = <<>> THEN s = <<>>
  ELSE IF Head(pat) = "%"
    THEN Like(Tail(pat), s) \/ (s # <<>> /\ Like(pat, Tail(s)))
  ELSE IF Head(pat) = "_"
    THEN s # <<>> /\ Like(Tail(pat), Tail(s))
  ELSE s # <<>> /\ LowerChar(Head(pat)) = LowerChar(Head(s))
               /\ Like(Tail(pat), Tail(s))

(***************************************************************************)
(* Nullable values.                                                        *)
(***************************************************************************)
NULL == <<>>
Some(v) == <<v>>
IsNull(x) == x = <<>>
Val(x) == x[1]

(***************************************************************************)
(* Inputs.                                                                 *)
(***************************************************************************)
SourcePath == <<"/">>

\* the paths the scanner finds under SourcePath
Paths == { <<"/", "d", "/", "f", ".", "T">>,
           <<"/", "D", "/", "g">>,
           <<"/", "d", "x", "/", "h">> }

\* the directories callers ask GetFilesInDirectory for
Directories == { <<"/", "d">>, <<"/", "d", "/">>, <<"/", "D">>,
                 <<"/", "d", "_">>, <<"/", "d", "%">>, <<"/", "g">> }

\* what os.FileInfo and the content detection report for a path:
\* a regular file, or a directory
ScanKinds == { [Size |-> 1, ModTime |-> 0, IsDir |-> FALSE,
                ContentType |-> "text/plain", SHA256 |-> "h1"],
               [Size |-> 0, ModTime |-> 0, IsDir |-> TRUE,
                ContentType |-> "", SHA256 |-> ""] }

\* filepath.Rel(SourcePath, path) for a path under SourcePath
Rel(path) == SubSeq(path, Len(SourcePath) + 1, Len(path))

\* the FileInfo values processFile hands to saveFileInfo
FileInfos == { [Path |-> p, RelativePath |-> Rel(p), Size |-> k.Size,
                ModTime |-> k.ModTime, IsDir |-> k.IsDir,
                ContentType |-> k.ContentType, SHA256 |-> k.SHA256]
               : p \in Paths, k \in ScanKinds }

\* the summaries the summarisation collaborator stores: "o g", which shares
\* the word g with the path /D/g, and "n"
SummaryOld == <<"o", " ", "g">>
SummaryNew == <<"n">>

\* the (processed, uploadedURL, summary) triples callers pass to
\* UpdateFileStatus: the backup pipeline's and the summariser's
StatusArgs == { [processed |-> TRUE, uploadedURL |-> "u1", summary |-> <<>>],
                [processed |-> FALSE, uploadedURL |-> "", summary |-> SummaryOld],
                [processed |-> TRUE, uploadedURL |-> "u1", summary |-> SummaryNew] }

\* what executeBackup passes to UpdateFileStatus after an upload:
\* (true, result.URL, "")
UploadArgs == [processed |-> TRUE, uploadedURL |-> "u1", summary |-> <<>>]

\* the ids callers pass: every id that can exist, and one that never does
Ids == 1..(MaxId + 1)

(***************************************************************************)
(* The manifest: the rows of table "files".                                *)
(***************************************************************************)
ErrNil == "nil"
ErrNoTable == "no such table: files"
ErrScanNull == "converting NULL to string is unsupported"
ErrNilFile == "cannot index nil file"

\* what an operation reports: its name, its arguments (id, path, and arg
\* for a FileInfo or a *FileStatus) and what it returned (err, files, count);
\* old is the document the index held for id when the call began (NULL when
\* it held none)
Ret(op, err) ==
  [op |-> op, err |-> err, id |-> 0, path |-> <<>>, arg |-> <<>>,
   files |-> <<>>, count |-> 0, old |-> <<>>]

\* the row INSERT OR REPLACE writes for info: the columns of the statement
\* take the values given, processed takes its DEFAULT, the others are NULL
NewRow(id, info) ==
  [id |-> id, path |-> info.Path, relative_path |-> info.RelativePath,
   size |-> info.Size, mod_time |-> info.ModTime, is_dir |-> info.IsDir,
   content_type |-> info.ContentType, sha256 |-> info.SHA256,
   processed |-> FALSE, uploaded_url |-> NULL, upload_time |-> NULL,
   summary |-> NULL]

\* INSERT OR REPLACE INTO files (path, ...): UNIQUE(path) makes the statement
\* delete the row that holds the path, and the new row takes the next
\* AUTOINCREMENT id
InsertOrReplace(rows, s, info) ==
  [files |-> {r \in rows : r.path # info.Path} \cup {NewRow(s + 1, info)},
   seq |-> s + 1]

\* UPDATE files SET processed, uploaded_url, upload_time, summary WHERE id
UpdateRows(rows, id, processed, uploadedURL, t, summary) ==
  { IF r.id = id
      THEN [r EXCEPT !.processed = processed,
                     !.uploaded_url = Some(uploadedURL),
                     !.upload_time = Some(t),
                     !.summary = Some(summary)]
      ELSE r : r \in rows }

\* rows.Scan succeeds on a row: no NULL goes into a string destination
ScanOK(r) == ~IsNull(r.uploaded_url) /\ ~IsNull(r.summary)

\* the FileStatus rows.Scan fills from a row it can scan
ScanRow(r) ==
  [ID |-> r.id, Path |-> r.path, RelativePath |-> r.relative_path,
   Size |-> r.size, ModTime |-> r.mod_time, IsDir |-> r.is_dir,
   ContentType |-> r.content_type, SHA256 |-> r.sha256,
   Processed |-> r.processed, UploadedURL |-> Val(r.uploaded_url),
   UploadTime |-> r.upload_time, Summary |-> Val(r.summary)]

\* ORDER BY path
RECURSIVE OrderByPath(_)
OrderByPath(rows) ==
  IF rows = {} THEN <<>>
  ELSE LET m == CHOOSE r \in rows :
                  \A q \in rows : q = r \/ ~StrLess(q.path, r.path)
       IN <<m>> \o OrderByPath(rows \ {m})

\* ORDER BY id
RECURSIVE OrderById(_)
OrderById(rows) ==
  IF rows = {} THEN <<>>
  ELSE LET m == CHOOSE r \in rows : \A q \in rows : r.id <= q.id
       IN <<m>> \o OrderById(rows \ {m})

\* the loop "for rows.Next() { rows.Scan(...); files = append(files, &file) }"
\* of the list queries: the first row that cannot be scanned ends the call
\* with (nil, err)
ScanAll(rs) ==
  IF \E i \in 1..Len(rs) : ~ScanOK(rs[i])
    THEN [err |-> ErrScanNull, files |-> <<>>]
    ELSE [err |-> ErrNil, files |-> [i \in 1..Len(rs) |-> ScanRow(rs[i])]]

\* SELECT ... WHERE path = ?, then row.Scan
GetFileByPathResult(rows, path) ==
  LET hit == {r \in rows : r.path = path} IN
  IF hit = {} THEN [err |-> ErrNil, files |-> <<>>]
  ELSE LET r == CHOOSE x \in hit : TRUE IN
       IF ScanOK(r) THEN [err |-> ErrNil, files |-> <<ScanRow(r)>>]
       ELSE [err |-> ErrScanNull, files |-> <<>>]

\* SELECT ... WHERE processed = FALSE AND is_dir = FALSE ORDER BY path
GetUnprocessedFilesResult(rows) ==
  ScanAll(OrderByPath({r \in rows : ~r.processed /\ ~r.is_dir}))

\* the LIKE pattern GetFilesInDirectory builds
DirectoryPattern(directory) ==
  (IF HasSuffixSlash(directory) THEN directory ELSE directory \o <<"/">>)
    \o <<"%">>

\* SELECT ... WHERE path LIKE ? ORDER BY path
GetFilesInDirectoryResult(rows, directory) ==
  ScanAll(OrderByPath({r \in rows : Like(DirectoryPattern(directory), r.path)}))

(***************************************************************************)
(* Manifest operations.                                                    *)
(***************************************************************************)
\* scan.NewScanner: opens the database file and creates the schema
NewScanner ==
  /\ ~schema
  /\ schema' = TRUE
  /\ last' = Ret("NewScanner", ErrNil)
  /\ UNCHANGED <<files, seq, now, config, index, order, pc, aux>>

\* the wall clock advances
Tick ==
  /\ now < MaxClock
  /\ now' = now + 1
  /\ last' = Ret("Tick", ErrNil)
  /\ UNCHANGED <<schema, files, seq, config, index, order, pc, aux>>

\* Scanner.saveFileInfo(info); a Scanner exists only after initDB
SaveFileInfo(info) ==
  /\ schema
  /\ seq < MaxId
  /\ LET w == InsertOrReplace(files, seq, info) IN
       /\ files' = w.files
       /\ seq' = w.seq
  /\ last' = [Ret("SaveFileInfo", ErrNil)
                EXCEPT !.path = info.Path, !.arg = Some(info)]
  /\ UNCHANGED <<schema, now, config, index, order, pc, aux>>

\* DB.UpdateFileStatus(id, processed, uploadedURL, summary)
UpdateFileStatus(id, a) ==
  /\ IF schema
       THEN /\ files' = UpdateRows(files, id, a.processed, a.uploadedURL,
                                   now, a.summary)
            /\ last' = [Ret("UpdateFileStatus", ErrNil) EXCEPT !.id = id]
       ELSE /\ files' = files
            /\ last' = [Ret("UpdateFileStatus", ErrNoTable) EXCEPT !.id = id]
  /\ UNCHANGED <<schema, seq, now, config, index, order, pc, aux>>

\* DB.GetFileByPath(path)
GetFileByPath(path) ==
  /\ LET res == IF schema THEN GetFileByPathResult(files, path)
                ELSE [err |-> ErrNoTable, files |-> <<>>] IN
       last' = [Ret("GetFileByPath", res.err)
                  EXCEPT !.path = path, !.files = res.files]
  /\ UNCHANGED <<schema, files, seq, now, config, index, order, pc, aux>>

\* DB.GetUnprocessedFiles()
GetUnprocessedFiles ==
  /\ LET res == IF schema THEN GetUnprocessedFilesResult(files)
                ELSE [err |-> ErrNoTable, files |-> <<>>] IN
       last' = [Ret("GetUnprocessedFiles", res.err) EXCEPT !.files = res.files]
  /\ UNCHANGED <<schema, files, seq, now, config, index, order, pc, aux>>

\* DB.GetFilesInDirectory(directory)
GetFilesInDirectory(directory) ==
  /\ LET res == IF schema THEN GetFilesInDirectoryResult(files, directory)
                ELSE [err |-> ErrNoTable, files |-> <<>>] IN
       last' = [Ret("GetFilesInDirectory", res.err)
                  EXCEPT !.path = directory, !.files = res.files]
  /\ UNCHANGED <<schema, files, seq, now, config, index, order, pc, aux>>

(***************************************************************************)
(* The index: a Bleve index, a map from document id to document.           *)
(***************************************************************************)
batchSize == 100

\* the FileIndex document IndexFile builds from file at time t
IndexFileDoc(file, cfg, t) ==
  [ID |-> Itoa(file.ID), Path |-> file.Path,
   RelativePath |-> file.RelativePath,
   Name |-> Base(file.Path), Extension |-> ToLower(Ext(file.Path)),
   Size |-> file.Size, ModTime |-> file.ModTime, IsDir |-> file.IsDir,
   ContentType |-> file.ContentType,
   Summary |-> IF cfg.IndexSummaries /\ file.Summary # <<>>
                 THEN file.Summary ELSE <<>>,
   UploadedURL |-> file.UploadedURL, UpdatedAt |-> t]

\* the FileIndex document the loop of BuildIndex builds from file at time t
BuildIndexDoc(file, cfg, t) ==
  [ID |-> Itoa(file.ID), Path |-> file.Path,
   RelativePath |-> file.RelativePath,
   Name |-> Base(file.Path), Extension |-> ToLower(Ext(file.Path)),
   Size |-> file.Size, ModTime |-> file.ModTime, IsDir |-> file.IsDir,
   ContentType |-> file.ContentType,
   Summary |-> IF cfg.IndexSummaries /\ file.Summary # <<>>
                 THEN file.Summary ELSE <<>>,
   UploadedURL |-> file.UploadedURL, UpdatedAt |-> t]

\* bleve Index.Index(id, doc): adds the document, replacing the one with
\* the same id
BleveIndex(idx, id, doc) ==
  [x \in (DOMAIN idx) \cup {id} |-> IF x = id THEN doc ELSE idx[x]]

\* bleve Index.Delete(id): removes the document with that id when there is
\* one; a missing id is no error
BleveDelete(idx, id) ==
  [err |-> ErrNil, index |-> [x \in (DOMAIN idx) \ {id} |-> idx[x]]]

\* bleve Index.Batch(batch): applies the index operations of the batch
BleveBatch(idx, batch) ==
  [x \in (DOMAIN idx) \cup (DOMAIN batch) |->
     IF x \in DOMAIN batch THEN batch[x] ELSE idx[x]]

\* bleve Index.DocCount()
DocCount(idx) == Cardinality(DOMAIN idx)

\* the document idx holds for id, NULL when it holds none
DocOf(idx, id) == IF id \in DOMAIN idx THEN Some(idx[id]) ELSE NULL

EmptyIndex == [x \in {} |-> 0]

\* The index hands the documents to a search in the order of their internal
\* numbers; ord is that order, a sequence of document ids.  A document that
\* is written takes a new number, behind every document the index holds.
Without(ord, ids) == SelectSeq(ord, LAMBDA x : x \notin ids)

\* the order after Index.Index(id, doc)
OrderIndex(ord, id) == Without(ord, {id}) \o <<id>>

\* the order after Index.Delete(id)
OrderDelete(ord, id) == Without(ord, {id})

\* the sequences that hold every element of ids once
Perms(ids) ==
  { p \in [1..Cardinality(ids) -> ids] :
      \A i, j \in 1..Cardinality(ids) : i # j => p[i] # p[j] }

\* the orders Index.Batch can leave: the batch keeps its operations in a Go
\* map, so its documents are numbered in any order
OrderBatch(ord, ids) == { Without(ord, ids) \o p : p \in Perms(ids) }

\* the loop of BuildIndex over the rows rs from position i on; st carries
\* the index, the open batch, count, and done, the ids of the documents the
\* call has handed to the index with idx.index.Batch; committed is their
\* number
RECURSIVE BuildLoop(_, _, _, _, _)
BuildLoop(rs, i, st, cfg, t) ==
  IF i > Len(rs)
    THEN [err |-> ErrNil, count |-> st.count,
          committed |-> st.count - DocCount(st.batch),
          index |-> st.index, batch |-> st.batch, done |-> st.done]
  ELSE IF ~ScanOK(rs[i])
    THEN [err |-> ErrScanNull, count |-> st.count,
          committed |-> st.count - DocCount(st.batch),
          index |-> st.index, batch |-> EmptyIndex, done |-> st.done]
  ELSE LET doc == BuildIndexDoc(ScanRow(rs[i]), cfg, t)
           b == BleveIndex(st.batch, doc.ID, doc)
           c == st.count + 1
       IN IF c % batchSize = 0
            THEN BuildLoop(rs, i + 1,
                           [index |-> BleveBatch(st.index, b),
                            batch |-> EmptyIndex, count |-> c,
                            done |-> st.done \cup DOMAIN b], cfg, t)
            ELSE BuildLoop(rs, i + 1,
                           [index |-> st.index, batch |-> b, count |-> c,
                            done |-> st.done], cfg, t)

\* BuildIndex up to the end of its loop: SELECT ... FROM files ORDER BY id,
\* then the loop
BuildLoopResult(hasTable, rows, idx, cfg, t) ==
  IF ~hasTable
    THEN [err |-> ErrNoTable, count |-> 0, committed |-> 0, index |-> idx,
          batch |-> EmptyIndex, done |-> {}]
  ELSE BuildLoop(OrderById(rows), 1,
                 [index |-> idx, batch |-> EmptyIndex, count |-> 0,
                  done |-> {}], cfg, t)

\* the end of BuildIndex after a loop that left res: the final batch is
\* committed to idx when it holds a document
BuildFinal(res, idx) ==
  IF res.err = ErrNil /\ DocCount(res.batch) > 0
    THEN [res EXCEPT !.index = BleveBatch(idx, res.batch),
                     !.committed = res.count,
                     !.batch = EmptyIndex,
                     !.done = DOMAIN res.batch]
    ELSE [res EXCEPT !.index = idx, !.done = {}]

\* BuildIndex as one call
BuildIndexResult(hasTable, rows, idx, cfg, t) ==
  LET res == BuildLoopResult(hasTable, rows, idx, cfg, t)
      fin == BuildFinal(res, res.index) IN
  [fin EXCEPT !.done = res.done \cup fin.done]

\* the pieces s falls into at "/" and " "
RECURSIVE Split(_, _)
Split(s, cur) ==
  IF s = <<>> THEN (IF cur = <<>> THEN {} ELSE {cur})
  ELSE IF Head(s) \in {"/", " "}
    THEN (IF cur = <<>> THEN {} ELSE {cur}) \cup Split(Tail(s), <<>>)
  ELSE Split(Tail(s), Append(cur, Head(s)))

\* w without leading and trailing dots
RECURSIVE TrimDots(_)
TrimDots(w) ==
  IF w = <<>> THEN w
  ELSE IF Head(w) = "." THEN TrimDots(Tail(w))
  ELSE IF w[Len(w)] = "." THEN TrimDots(SubSeq(w, 1, Len(w) - 1))
  ELSE w

\* the terms the standard analyzer makes of a text: words, lower-cased
Tokens(s) == { ToLower(TrimDots(w)) : w \in Split(s, <<>>) } \ {<<>>}

\* the terms of the text fields of a document that a search over all
\* fields sees (ContentType and UploadedURL hold no term a model query uses)
AllTerms(doc) ==
  Tokens(doc.Path) \cup Tokens(doc.RelativePath) \cup Tokens(doc.Name)
    \cup Tokens(doc.Extension) \cup Tokens(doc.Summary)

\* the ids of the hits of Search with Query = q, no FieldName, no paging
SearchIds(idx, q) ==
  { id \in DOMAIN idx : Tokens(q) # {} /\ Tokens(q) \cap AllTerms(idx[id]) # {} }

(***************************************************************************)
(* Search.                                                                 *)
(***************************************************************************)
\* the fields of a document that hold text in the model; the default
\* dynamic mapping indexes each with the standard analyzer (the documents
\* carry no type, so the mapping registered as "fileindex" is not used)
TextFields == {"Path", "RelativePath", "Name", "Extension", "Summary"}

\* the fields of the FileIndex document
DocumentFields ==
  {"ID", "Path", "RelativePath", "Name", "Extension", "Size", "ModTime",
   "IsDir", "ContentType", "Summary", "UploadedURL", "UpdatedAt"}

\* the terms of field name of doc; a name that is no text field has none
FieldTerms(doc, name) ==
  IF name \in TextFields THEN Tokens(doc[name]) ELSE {}

\* request.Limit with its default
EffectiveLimit(request) == IF request.Limit <= 0 THEN 10 ELSE request.Limit

\* the fields of doc in which the query of request finds a term: none for
\* the match-all query, the named field for a match query with SetField,
\* every field for a query string
HitFields(doc, request) ==
  IF request.Query = <<>> THEN {}
  ELSE IF request.FieldName # ""
    THEN { f \in {request.FieldName} :
             Tokens(request.Query) \cap FieldTerms(doc, f) # {} }
  ELSE { f \in TextFields : Tokens(request.Query) \cap FieldTerms(doc, f) # {} }

\* the query of request matches doc
Matches(doc, request) ==
  request.Query = <<>> \/ HitFields(doc, request) # {}

\* stands for the relevance score of a hit: the number of fields in which
\* the query finds a term, 1 for the match-all query
Score(doc, request) ==
  IF request.Query = <<>> THEN 1 ELSE Cardinality(HitFields(doc, request))

\* the sort string Search hands to SortBy, as the pieces it concatenates
SortString(request) ==
  <<request.SortBy, ":", IF request.SortDesc THEN "desc" ELSE "asc">>

\* bleve's ParseSearchSortString: a leading "-" asks for descending order,
\* the rest of the string is the name of the field
ParseSearchSortString(str) ==
  [Desc |-> str[1] = "-",
   Field |-> IF str[1] \in {"-", "+"} THEN Tail(str) ELSE str]

\* the value a document has for a sort: NULL when the document has no field
\* of that name
SortValue(doc, sort) ==
  IF Len(sort.Field) = 1 /\ sort.Field[1] \in DocumentFields
    THEN Some(doc[sort.Field[1]]) ELSE NULL

\* natural order of the values of a field: numeric for Size and the times,
\* FALSE before TRUE for IsDir, byte order for text
FieldLess(name, x, y) ==
  IF name \in {"Size", "ModTime", "UpdatedAt"} THEN x < y
  ELSE IF name = "IsDir" THEN (~x /\ y)
  ELSE StrLess(x, y)

\* position of id in ord
Pos(ord, id) == CHOOSE i \in 1..Len(ord) : ord[i] = id

\* what the order of the hits of request looks at in doc: its score when
\* the request names no sort, else its value for the sort
HitKey(doc, request) ==
  [score |-> Score(doc, request),
   value |-> IF request.SortBy = "" THEN NULL
             ELSE SortValue(doc, ParseSearchSortString(SortString(request)))]

\* the hit with key ka and internal number pa comes before the hit with kb
\* and pb: by the sort of the request, or by score from high to low when it
\* names none; a hit without a value for the sort comes after those that
\* have one; hits that compare equal come in the order of their internal
\* numbers
KeyBefore(request, ka, pa, kb, pb) ==
  IF request.SortBy = ""
    THEN \/ ka.score > kb.score
         \/ (ka.score = kb.score /\ pa < pb)
  ELSE LET sort == ParseSearchSortString(SortString(request)) IN
       IF IsNull(ka.value) \/ IsNull(kb.value)
         THEN \/ (~IsNull(ka.value) /\ IsNull(kb.value))
              \/ (IsNull(ka.value) = IsNull(kb.value) /\ pa < pb)
       ELSE IF Val(ka.value) = Val(kb.value) THEN pa < pb
       ELSE IF sort.Desc
         THEN FieldLess(sort.Field[1], Val(kb.value), Val(ka.value))
       ELSE FieldLess(sort.Field[1], Val(ka.value), Val(kb.value))

\* the function f as a table
Table(f) == f @@ <<>>

\* the ids of all hits of request, in the order the index returns them
SearchHits(idx, ord, request) ==
  LET m == { id \in DOMAIN idx : Matches(idx[id], request) }
      key == Table([a \in m |-> HitKey(idx[a], request)])
      pos == Table([a \in m |-> Pos(ord, a)])
      rank == Table([a \in m |->
                1 + Cardinality({ b \in m :
                      KeyBefore(request, key[b], pos[b], key[a], pos[a]) })])
  IN [i \in 1..Cardinality(m) |-> CHOOSE a \in m : rank[a] = i]

\* the hits From .. From + Size - 1 (counted from 0) of hits
Page(hits, from, size) ==
  IF size <= 0 \/ from >= Len(hits) THEN <<>>
  ELSE SubSeq(hits, from + 1,
              IF from + size < Len(hits) THEN from + size ELSE Len(hits))

\* the highlighter's fragment of text: the words that are terms of the
\* query stand between <mark> and </mark>
RECURSIVE Mark(_, _, _)
Mark(s, cur, terms) ==
  LET flush == IF cur = <<>> THEN <<>>
               ELSE IF ToLower(TrimDots(cur)) \in terms
                 THEN <<"<mark>">> \o cur \o <<"</mark>">>
               ELSE cur
  IN IF s = <<>> THEN flush
     ELSE IF Head(s) \in {"/", " "}
       THEN flush \o <<Head(s)>> \o Mark(Tail(s), <<>>, terms)
     ELSE Mark(Tail(s), Append(cur, Head(s)), terms)

\* the snippet of a hit: the fragment of Summary, else that of Path, else ""
Snippet(doc, request) ==
  LET fs == HitFields(doc, request) IN
  IF "Summary" \in fs THEN Mark(doc.Summary, <<>>, Tokens(request.Query))
  ELSE IF "Path" \in fs THEN Mark(doc.Path, <<>>, Tokens(request.Query))
  ELSE <<>>

\* the SearchResult Search makes of the hit with id
SearchResult(idx, id, request) ==
  [ID |-> id, Path |-> idx[id].Path, Score |-> Score(idx[id], request),
   Snippet |-> Snippet(idx[id], request), IsDir |-> idx[id].IsDir,
   Size |-> idx[id].Size, ModTime |-> idx[id].ModTime]

\* what Search returns for request when the index hands it size hits
SearchPage(idx, ord, request, size) ==
  LET page == Page(SearchHits(idx, ord, request), request.Offset, size) IN
  [i \in 1..Len(page) |-> SearchResult(idx, page[i], request)]

\* what Search returns for request
SearchResults(idx, ord, request) ==
  SearchPage(idx, ord, request, EffectiveLimit(request))

(***************************************************************************)
(* Index operations.                                                       *)
(***************************************************************************)
\* the calls that are under way: the record UpdateFile was called with once
\* it has removed the old document, and what the loop of BuildIndex has left
\* once it has ended; NULL when no such call is under way
Idle == [update |-> NULL, build |-> NULL]

\* the FileStatus values a caller holds: the rows the store can hand out
Held == { ScanRow(r) : r \in {x \in files : ScanOK(x)} }

\* IndexFile as it would be if it never put the summary into the document
IndexFileNoSummary(fp) ==
  /\ IF IsNull(fp)
       THEN /\ index' = index
            /\ order' = order
            /\ last' = Ret("IndexFile", ErrNilFile)
       ELSE LET file == Val(fp)
                doc == [IndexFileDoc(file, config, now) EXCEPT !.Summary = <<>>] IN
            /\ index' = BleveIndex(index, doc.ID, doc)
            /\ order' = OrderIndex(order, doc.ID)
            /\ last' = [Ret("IndexFile", ErrNil)
                          EXCEPT !.id = file.ID, !.arg = fp,
                                 !.old = DocOf(index, doc.ID)]
  /\ UNCHANGED <<schema, files, seq, now, config, pc, aux>>

\* BleveIndexer.IndexFile(file); fp is the pointer, NULL for nil
IndexFile(fp) ==
  /\ IF IsNull(fp)
       THEN /\ index' = index
            /\ order' = order
            /\ last' = Ret("IndexFile", ErrNilFile)
       ELSE LET file == Val(fp)
                doc == IndexFileDoc(file, config, now) IN
            /\ index' = BleveIndex(index, doc.ID, doc)
            /\ order' = OrderIndex(order, doc.ID)
            /\ last' = [Ret("IndexFile", ErrNil)
                          EXCEPT !.id = file.ID, !.arg = fp,
                                 !.old = DocOf(index, doc.ID)]
  /\ UNCHANGED <<schema, files, seq, now, config, pc, aux>>

\* RemoveFile as it would be if deleting a missing document were an error
RemoveFileStrict(fileID) ==
  /\ LET id == Itoa(fileID)
         d == BleveDelete(index, id) IN
       /\ index' = d.index
       /\ order' = OrderDelete(order, id)
       /\ last' = [Ret("RemoveFile",
                       IF id \in DOMAIN index THEN d.err
                       ELSE "document not found")
                     EXCEPT !.id = fileID, !.old = DocOf(index, id)]
  /\ UNCHANGED <<schema, files, seq, now, config, pc, aux>>

\* BleveIndexer.RemoveFile(fileID)
RemoveFile(fileID) ==
  /\ LET id == Itoa(fileID)
         d == BleveDelete(index, id) IN
       /\ index' = d.index
       /\ order' = OrderDelete(order, id)
       /\ last' = [Ret("RemoveFile", d.err)
                     EXCEPT !.id = fileID, !.old = DocOf(index, id)]
  /\ UNCHANGED <<schema, files, seq, now, config, pc, aux>>

\* UpdateFile as it would be if it added the document only when the index
\* held none for the id
UpdateFileIfAbsent(file) ==
  /\ LET id == Itoa(file.ID)
         doc == IndexFileDoc(file, config, now) IN
       /\ index' = IF id \in DOMAIN index THEN index
                   ELSE BleveIndex(index, doc.ID, doc)
       /\ order' = IF id \in DOMAIN index THEN order
                   ELSE OrderIndex(order, doc.ID)
       /\ last' = [Ret("UpdateFile", ErrNil)
                     EXCEPT !.id = file.ID, !.arg = Some(file),
                            !.old = DocOf(index, id)]
  /\ UNCHANGED <<schema, files, seq, now, config, pc, aux>>

\* BleveIndexer.UpdateFile(file): RemoveFile, then IndexFile
UpdateFile(file) ==
  /\ LET id == Itoa(file.ID)
         d == BleveDelete(index, id)
         doc == IndexFileDoc(file, config, now) IN
       IF d.err # ErrNil
         THEN /\ index' = d.index
              /\ order' = OrderDelete(order, id)
              /\ last' = [Ret("UpdateFile", d.err)
                            EXCEPT !.id = file.ID, !.arg = Some(file),
                                   !.old = DocOf(index, id)]
         ELSE /\ index' = BleveIndex(d.index, doc.ID, doc)
              /\ order' = OrderIndex(OrderDelete(order, id), doc.ID)
              /\ last' = [Ret("UpdateFile", ErrNil)
                            EXCEPT !.id = file.ID, !.arg = Some(file),
                                   !.old = DocOf(index, id)]
  /\ UNCHANGED <<schema, files, seq, now, config, pc, aux>>

\* BleveIndexer.BuildIndex()
BuildIndex ==
  /\ LET res == BuildIndexResult(schema, files, index, config, now) IN
       /\ index' = res.index
       /\ order' \in OrderBatch(order, res.done)
       /\ last' = [Ret("BuildIndex", res.err) EXCEPT !.count = res.count]
  /\ UNCHANGED <<schema, files, seq, now, config, pc, aux>>

\* UpdateFile up to the return of its RemoveFile call, seen from callers
\* that run beside it; BleveIndexer holds no lock
UpdateFileRemove(file) ==
  /\ IsNull(pc.update)
  /\ LET id == Itoa(file.ID)
         d == BleveDelete(index, id) IN
       /\ index' = d.index
       /\ order' = OrderDelete(order, id)
       /\ IF d.err # ErrNil
            THEN /\ pc' = pc
                 /\ last' = [Ret("UpdateFile", d.err)
                               EXCEPT !.id = file.ID, !.arg = Some(file),
                                      !.old = DocOf(index, id)]
            ELSE /\ pc' = [pc EXCEPT !.update =
                                 Some([file |-> file, old |-> DocOf(index, id)])]
                 /\ last' = [Ret("RemoveFile", d.err)
                               EXCEPT !.id = file.ID, !.old = DocOf(index, id)]
  /\ UNCHANGED <<schema, files, seq, now, config, aux>>

\* the rest of UpdateFile: its IndexFile call and its return
UpdateFileIndex ==
  /\ ~IsNull(pc.update)
  /\ LET file == Val(pc.update).file
         doc == IndexFileDoc(file, config, now) IN
       /\ index' = BleveIndex(index, doc.ID, doc)
       /\ order' = OrderIndex(order, doc.ID)
       /\ last' = [Ret("UpdateFile", ErrNil)
                     EXCEPT !.id = file.ID, !.arg = Some(file),
                            !.old = Val(pc.update).old]
  /\ pc' = [pc EXCEPT !.update = NULL]
  /\ UNCHANGED <<schema, files, seq, now, config, aux>>

\* BuildIndex up to the end of its loop: the rows are read and batched, the
\* last batch is still open; a failure in the loop ends the call
BuildIndexLoop ==
  /\ IsNull(pc.build)
  /\ LET res == BuildLoopResult(schema, files, index, config, now) IN
       /\ index' = res.index
       /\ order' \in OrderBatch(order, res.done)
       /\ IF res.err # ErrNil
            THEN /\ pc' = pc
                 /\ last' = [Ret("BuildIndex", res.err) EXCEPT !.count = res.count]
            ELSE /\ pc' = [pc EXCEPT !.build = Some(res)]
                 /\ last' = [Ret("BuildIndexLoop", ErrNil)
                               EXCEPT !.count = res.count]
  /\ UNCHANGED <<schema, files, seq, now, config, aux>>

\* the rest of BuildIndex: the commit of the last batch and the return
BuildIndexCommit ==
  /\ ~IsNull(pc.build)
  /\ LET fin == BuildFinal(Val(pc.build), index) IN
       /\ index' = fin.index
       /\ order' \in OrderBatch(order, fin.done)
       /\ last' = [Ret("BuildIndex", fin.err) EXCEPT !.count = fin.count]
  /\ pc' = [pc EXCEPT !.build = NULL]
  /\ UNCHANGED <<schema, files, seq, now, config, aux>>

\* Search as it would be if it handed request.Limit to the index as it is
SearchNoDefault(request) ==
  /\ last' = [Ret("Search", ErrNil)
                EXCEPT !.arg = Some(request),
                       !.files = SearchPage(index, order, request, request.Limit)]
  /\ UNCHANGED <<schema, files, seq, now, config, index, order, pc, aux>>

\* Search as it would be if it never restricted the query to FieldName
SearchAllFields(request) ==
  /\ last' = [Ret("Search", ErrNil)
                EXCEPT !.arg = Some(request),
                       !.files = SearchResults(index, order,
                                               [request EXCEPT !.FieldName = ""])]
  /\ UNCHANGED <<schema, files, seq, now, config, index, order, pc, aux>>

\* BleveIndexer.Search(request)
Search(request) ==
  /\ last' = [Ret("Search", ErrNil)
                EXCEPT !.arg = Some(request),
                       !.files = SearchResults(index, order, request)]
  /\ UNCHANGED <<schema, files, seq, now, config, index, order, pc, aux>>

(***************************************************************************)
(* The summariser and its cost tracker (package summariser).               *)
(*                                                                         *)
(* Money is counted in units of 1e-8 USD, the smallest amount a token of   *)
(* the configured models costs a multiple of, so that the float64 sums of  *)
(* the code are exact integers here.  A text is modelled by the number of  *)
(* words strings.Fields finds in it.                                       *)
(***************************************************************************)
\* upper bound on the number of Summarise calls that run side by side
MaxCallers == 2
\* upper bound on the number of Summarise calls made
MaxCalls == 3

\* an amount of cents in units of 1e-8 USD
Cents(n) == n * 1000000

\* DefaultConfig: the models with their prices per 1K tokens in units of
\* 1e-5 USD (a token then costs that many units of 1e-8 USD)
DefaultConfig ==
  [Level |-> "default", CostCap |-> Cents(500), Concurrency |-> 2,
   Models |-> <<
     [Name |-> "llama3-8b-instruct", Provider |-> "ollama",
      CostPer1KIn |-> 0, CostPer1KOut |-> 0, MaxTokens |-> 4096,
      Available |-> FALSE],
     [Name |-> "llama3-8b-instant", Provider |-> "groq",
      CostPer1KIn |-> 10, CostPer1KOut |-> 20, MaxTokens |-> 4096,
      Available |-> FALSE],
     [Name |-> "claude-haiku", Provider |-> "anthropic",
      CostPer1KIn |-> 25, CostPer1KOut |-> 125, MaxTokens |-> 8192,
      Available |-> FALSE],
     [Name |-> "gpt-4-turbo", Provider |-> "openai",
      CostPer1KIn |-> 1000, CostPer1KOut |-> 3000, MaxTokens |-> 16384,
      Available |-> FALSE] >>]

\* the callers of Summarise
Callers == 1..MaxCallers

\* the result of a Summarise call: the error, and Cost and Model of the
\* Summary
Summary(err, cost, model) == [err |-> err, Cost |-> cost, Model |-> model]

ErrNoModels == "no LLM models available for summarization"
ErrCostCap == "cost cap has been reached"
ErrAllFailed == "failed to summarize text with any available model"

\* a caller that is not inside Summarise
NoCall == [pc |-> "idle", title |-> 0, text |-> 0, models |-> <<>>, i |-> 0,
           ret |-> Summary(ErrNil, 0, "")]

\* NewSummariser: the cost tracker starts at zero with the configured cap;
\* a model is available when the environment holds its provider's key (or
\* the ollama binary); env is the set of those providers
NewSummariser(cfg, env) ==
  [config |-> [cfg EXCEPT !.Models =
                 [i \in DOMAIN cfg.Models |->
                    [cfg.Models[i] EXCEPT !.Available =
                       cfg.Models[i].Provider \in env]]],
   costTracker |-> [total |-> 0, costCap |-> cfg.CostCap,
                    perModel |-> [m \in {cfg.Models[i].Name : i \in DOMAIN cfg.Models}
                                    |-> 0]],
   call |-> [c \in Callers |-> NoCall],
   calls |-> 0]

\* CostTracker.AddCost
AddCost(c, cost, model) ==
  [c EXCEPT !.total = @ + cost, !.perModel[model] = @ + cost]

\* CostTracker.CheckBudget
CheckBudget(c, cost) == c.total + cost <= c.costCap

\* CostTracker.GetTotal
GetTotal(c) == c.total

\* CostTracker.GetRemaining
GetRemaining(c) == c.costCap - c.total

\* estimateTokenCount: int(float64(len(words)) * 1.3), 0 for the empty text
estimateTokenCount(text) == (text * 13) \div 10

\* calculateCost: tokens * price per 1K / 1000 for input and output
calculateCost(input, output, model) ==
  estimateTokenCount(input) * model.CostPer1KIn
    + estimateTokenCount(output) * model.CostPer1KOut

\* truncateText: the first int(maxTokens / 1.3) words (the "..." it appends
\* joins the last word)
truncateText(text, maxTokens) ==
  LET estimatedWordCount == (maxTokens * 10) \div 13 IN
  IF text <= estimatedWordCount THEN text ELSE estimatedWordCount

\* the number of words of the instructions buildPrompt chooses for a level
Instructions(level) ==
  CASE level = "basic" -> 15
    [] level = "default" -> 17
    [] level = "full" -> 14
    [] OTHER -> 12

\* buildPrompt: "Document Title:", the title, "Document Text:", the text,
\* "Instructions:", the instructions and "Summary:"
buildPrompt(title, text, level) == 6 + title + text + Instructions(level)

\* the number of words of the summary a provider's call returns
SummaryText(provider) == IF provider = "anthropic" THEN 22 ELSE 21

\* sort.Slice by CostPer1KOut, cheapest model first
RECURSIVE SortByCostPer1KOut(_)
SortByCostPer1KOut(models) ==
  IF models = <<>> THEN <<>>
  ELSE LET i == CHOOSE i \in DOMAIN models :
                  \A j \in DOMAIN models :
                    models[i].CostPer1KOut <= models[j].CostPer1KOut
           rest == [j \in 1..(Len(models) - 1) |->
                      IF j < i THEN models[j] ELSE models[j + 1]]
       IN <<models[i]>> \o SortByCostPer1KOut(rest)

\* the largest MaxTokens of the models
RECURSIVE MaxTokensOf(_)
MaxTokensOf(models) ==
  IF models = <<>> THEN 0
  ELSE LET m == MaxTokensOf(Tail(models)) IN
       IF Head(models).MaxTokens > m THEN Head(models).MaxTokens ELSE m

\* the budget Summarise asks for before it looks at the text: 0.01 USD
MinimumBudget == Cents(1)

\* Summarise up to the waterfall: level none returns an empty summary, no
\* available model and a cap that leaves less than 0.01 USD are errors;
\* otherwise the text is truncated and the available models are sorted
Summarise(c, title, text) ==
  LET s == summariser
      availableModels == SelectSeq(s.config.Models, LAMBDA m : m.Available)
      maxTokens == MaxTokensOf(availableModels)
      cut == IF estimateTokenCount(text) > maxTokens - 1000
               THEN truncateText(text, maxTokens - 1000) ELSE text
      return(r) == [s EXCEPT !.call[c] = [NoCall EXCEPT !.ret = r],
                             !.calls = @ + 1]
  IN
  /\ s.call[c].pc = "idle"
  /\ s.calls < MaxCalls
  /\ summariser' =
       IF s.config.Level = "none" THEN return(Summary(ErrNil, 0, "none"))
       ELSE IF Len(availableModels) = 0 THEN return(Summary(ErrNoModels, 0, ""))
       ELSE IF ~CheckBudget(s.costTracker, MinimumBudget)
         THEN return(Summary(ErrCostCap, 0, ""))
       ELSE [s EXCEPT !.call[c] =
               [pc |-> "waterfall", title |-> title, text |-> cut,
                models |-> SortByCostPer1KOut(availableModels), i |-> 1,
                ret |-> s.call[c].ret],
                      !.calls = @ + 1]
  /\ UNCHANGED <<core, disk, tracker, interactive, uploader>>

\* one round of the waterfall: a model whose expected cost does not fit
\* the budget is skipped, and the call fails after the last model
SummariseWaterfall(c) ==
  LET s == summariser
      call == s.call[c]
      model == call.models[call.i]
      expectedCost == calculateCost(call.text, 0, model)
  IN
  /\ call.pc = "waterfall"
  /\ summariser' =
       IF CheckBudget(s.costTracker, expectedCost)
         THEN [s EXCEPT !.call[c].pc = "summarize"]
       ELSE IF call.i < Len(call.models)
         THEN [s EXCEPT !.call[c].i = @ + 1]
       ELSE [s EXCEPT !.call[c] =
               [NoCall EXCEPT !.ret = Summary(ErrAllFailed, 0, "")]]
  /\ UNCHANGED <<core, disk, tracker, interactive, uploader>>

\* summarizeWithModel: the provider's call, which does not fail, and the
\* cost of prompt and summary added to the tracker
summarizeWithModel(c) ==
  LET s == summariser
      call == s.call[c]
      model == call.models[call.i]
      prompt == buildPrompt(call.title, call.text, s.config.Level)
      summaryText == SummaryText(model.Provider)
      cost == calculateCost(prompt, summaryText, model)
  IN
  /\ call.pc = "summarize"
  /\ summariser' =
       [s EXCEPT !.costTracker = AddCost(@, cost, model.Name),
                 !.call[c] = [NoCall EXCEPT !.ret = Summary(ErrNil, cost, model.Name)]]
  /\ UNCHANGED <<core, disk, tracker, interactive, uploader>>

(***************************************************************************)
(* Stub creation (internal/db/stub.go) on a file system: a map from the    *)
(* paths that exist to what they hold.  The faults of the environment (a   *)
(* directory that cannot be made or written, a write that fails, a file    *)
(* that cannot be removed) are fixed per original path.                    *)
(***************************************************************************)
\* upper bound on the number of stub operations called
MaxStubOps == 2

StubModeWebloc == "webloc"
StubModeShortcut == "shortcut"
StubModeNone == "none"

\* the values callers give a StubMode: the three constants, and a string
\* that is none of them
StubModes == {StubModeWebloc, StubModeShortcut, StubModeNone, "symlink"}

ErrUnsupported == "unsupported stub mode"
ErrMkdir == "failed to create directory"
ErrCreate == "failed to create file"
ErrEncode == "failed to encode XML"
ErrWrite == "failed to write to file"
ErrRemove == "failed to remove original file"

\* what the environment does to the stub of an original: nothing, fail
\* os.MkdirAll, fail os.Create, fail the write of the XML header (which
\* createWeblocFile does not look at), fail the write of the body, fail
\* os.Remove of the original
Faults == {"none", "mkdir", "create", "header", "write", "remove"}

\* an original file, and a stub that points to url, whole or cut short
Original == [kind |-> "file", url |-> ""]
Stub(url, whole) == [kind |-> IF whole THEN "stub" ELSE "partial", url |-> url]

\* the file system with path holding v, and without path
Put(content, path, v) ==
  [p \in DOMAIN content \cup {path} |-> IF p = path THEN v ELSE content[p]]
Unlink(content, path) == [p \in DOMAIN content \ {path} |-> content[p]]

\* originalPath + ".webloc" and originalPath + ".url"
StubPath(originalPath, mode) ==
  IF mode = StubModeWebloc
    THEN originalPath \o <<".", "w", "e", "b", "l", "o", "c">>
    ELSE originalPath \o <<".", "u", "r", "l">>

\* createWeblocFile: MkdirAll, Create (which truncates), the header, whose
\* write error is dropped, and the encoded body
createWeblocFile(content, path, url, fault) ==
  CASE fault = "mkdir" -> [content |-> content, err |-> ErrMkdir]
    [] fault = "create" -> [content |-> content, err |-> ErrCreate]
    [] fault = "header" ->
         [content |-> Put(content, path, Stub(url, FALSE)), err |-> ErrNil]
    [] fault = "write" ->
         [content |-> Put(content, path, Stub(url, FALSE)), err |-> ErrEncode]
    [] OTHER -> [content |-> Put(content, path, Stub(url, TRUE)), err |-> ErrNil]

\* createShortcutFile: MkdirAll, Create, and one write
createShortcutFile(content, path, url, fault) ==
  CASE fault = "mkdir" -> [content |-> content, err |-> ErrMkdir]
    [] fault = "create" -> [content |-> content, err |-> ErrCreate]
    [] fault = "write" ->
         [content |-> Put(content, path, Stub(url, FALSE)), err |-> ErrWrite]
    [] OTHER -> [content |-> Put(content, path, Stub(url, TRUE)), err |-> ErrNil]

\* CreateStub: nothing for mode none, an error for a mode that is neither
\* webloc nor shortcut, else the stub file next to the original
CreateStubResult(content, fault, originalPath, url, mode) ==
  IF mode = StubModeNone THEN [content |-> content, err |-> ErrNil]
  ELSE IF mode = StubModeWebloc
    THEN createWeblocFile(content, StubPath(originalPath, mode), url, fault)
  ELSE IF mode = StubModeShortcut
    THEN createShortcutFile(content, StubPath(originalPath, mode), url, fault)
  ELSE [content |-> content, err |-> ErrUnsupported]

\* ReplaceWithStub that removes the original whatever CreateStub returned
ReplaceWithStubRegardless(content, fault, originalPath, url, mode) ==
  LET r == CreateStubResult(content, fault, originalPath, url, mode) IN
  IF originalPath \notin DOMAIN r.content \/ fault = "remove"
    THEN [content |-> r.content, err |-> ErrRemove]
    ELSE [content |-> Unlink(r.content, originalPath), err |-> r.err]

\* ReplaceWithStub: CreateStub, and os.Remove of the original when
\* CreateStub returned no error and the mode is not none; os.Remove fails
\* on a path that does not exist
ReplaceWithStubResult(content, fault, originalPath, url, mode) ==
  LET r == CreateStubResult(content, fault, originalPath, url, mode) IN
  IF r.err # ErrNil THEN r
  ELSE IF mode = StubModeNone THEN r
  ELSE IF originalPath \notin DOMAIN r.content \/ fault = "remove"
    THEN [content |-> r.content, err |-> ErrRemove]
  ELSE [content |-> Unlink(r.content, originalPath), err |-> ErrNil]

\* what a stub operation reports: its name and arguments, the returned
\* error and count, and OriginalPath and error of every ReplaceWithStub or
\* CreateStub call made
StubRet(op, path, mode, err, count, results) ==
  [op |-> op, path |-> path, mode |-> mode, err |-> err, count |-> count,
   results |-> results]

\* the loop of CreateStubsForDirectory over fs[i..]: directories and
\* records without URL are skipped; a failure with no earlier failure
\* becomes firstErr, every other call counts
RECURSIVE StubLoop(_, _, _, _, _)
StubLoop(fs, i, st, fault, mode) ==
  IF i > Len(fs) THEN st
  ELSE LET file == fs[i] IN
       IF file.IsDir \/ file.UploadedURL = ""
         THEN StubLoop(fs, i + 1, st, fault, mode)
       ELSE LET r == ReplaceWithStubResult(st.content, fault[file.Path],
                                           file.Path, file.UploadedURL, mode)
                res == Append(st.results, [OriginalPath |-> file.Path,
                                           err |-> r.err])
            IN IF r.err # ErrNil /\ st.firstErr = ErrNil
                 THEN StubLoop(fs, i + 1,
                               [st EXCEPT !.content = r.content,
                                          !.firstErr = r.err,
                                          !.results = res], fault, mode)
                 ELSE StubLoop(fs, i + 1,
                               [st EXCEPT !.content = r.content,
                                          !.count = @ + 1,
                                          !.results = res], fault, mode)

\* CreateStub(originalPath, url, mode)
CreateStub(originalPath, url, mode) ==
  /\ disk.ops < MaxStubOps
  /\ LET r == CreateStubResult(disk.content, disk.fault[originalPath],
                               originalPath, url, mode) IN
       disk' = [disk EXCEPT
                  !.ops = @ + 1,
                  !.content = r.content,
                  !.ret = StubRet("CreateStub", originalPath, mode, r.err, 0,
                                  <<[OriginalPath |-> originalPath, err |-> r.err]>>)]
  /\ UNCHANGED <<core, summariser, tracker, interactive, uploader>>

\* ReplaceWithStub(originalPath, url, mode)
ReplaceWithStub(originalPath, url, mode) ==
  /\ disk.ops < MaxStubOps
  /\ LET r == ReplaceWithStubResult(disk.content, disk.fault[originalPath],
                                    originalPath, url, mode) IN
       disk' = [disk EXCEPT
                  !.ops = @ + 1,
                  !.content = r.content,
                  !.ret = StubRet("ReplaceWithStub", originalPath, mode, r.err, 0,
                                  <<[OriginalPath |-> originalPath, err |-> r.err]>>)]
  /\ UNCHANGED <<core, summariser, tracker, interactive, uploader>>

\* CreateStubsForDirectory(db, directory, mode)
CreateStubsForDirectory(directory, mode) ==
  /\ disk.ops < MaxStubOps
  /\ LET res == IF schema THEN GetFilesInDirectoryResult(files, directory)
                ELSE [err |-> ErrNoTable, files |-> <<>>]
         st == StubLoop(res.files, 1,
                        [content |-> disk.content, count |-> 0,
                         firstErr |-> ErrNil, results |-> <<>>],
                        disk.fault, mode)
     IN
       disk' =
         IF mode = StubModeNone
           THEN [disk EXCEPT !.ops = @ + 1,
                             !.ret = StubRet("CreateStubsForDirectory",
                                             directory, mode, ErrNil, 0, <<>>)]
         ELSE IF res.err # ErrNil
           THEN [disk EXCEPT !.ops = @ + 1,
                             !.ret = StubRet("CreateStubsForDirectory",
                                             directory, mode, res.err, 0, <<>>)]
         ELSE [disk EXCEPT !.ops = @ + 1,
                           !.content = st.content,
                           !.ret = StubRet("CreateStubsForDirectory", directory,
                                           mode, st.firstErr, st.count,
                                           st.results)]
  /\ UNCHANGED <<core, summariser, tracker, interactive, uploader>>

\* a file system nothing is known of yet
NoDisk ==
  [content |-> <<>>, fault |-> <<>>, ops |-> 0,
   ret |-> StubRet("", <<>>, StubModeNone, ErrNil, 0, <<>>)]

(***************************************************************************)
(* The progress tracker (internal/progress/tracker.go) and the refresh of  *)
(* the interactive display (InteractiveMode.updateComponents).  A mutex is *)
(* the goroutine that holds it, or Free; a goroutine that waits for a      *)
(* mutex stands before the step that takes it.  The rates and times of     *)
(* Stats are left out: no step depends on them.                            *)
(***************************************************************************)
\* upper bound on the number of pipeline goroutines that report progress
MaxWorkers == 2
\* upper bound on the Current of a stage
MaxCurrent == 2

Workers == 1..MaxWorkers
Free == 0
\* the goroutine of the display's updateLoop
Display == MaxWorkers + 1

\* a goroutine of the pipeline outside the tracker
NoProgressCall == [pc |-> "idle", op |-> "", name |-> "", current |-> 0,
                   increment |-> 0]

\* the display outside updateComponents
NoRefresh == [pc |-> "idle", todo |-> <<>>]

\* NewTracker: no stage, zero statistics
NewTracker ==
  [Stages |-> [n \in {} |-> 0],
   Statistics |-> [CurrentPhase |-> "", mu |-> Free],
   call |-> [w \in Workers |-> NoProgressCall],
   display |-> NoRefresh,
   gauges |-> [n \in {} |-> 0],
   lastIncremented |-> "",
   direct |-> FALSE]

\* AddStage(name, description, total) on tracker t
AddStage(t, name, total) ==
  [t EXCEPT !.Stages = [n \in DOMAIN t.Stages \cup {name} |->
                          IF n = name
                            THEN [Total |-> total, Current |-> 0, Bar |-> 0,
                                  mu |-> Free]
                            ELSE t.Stages[n]]]

\* the increments of the IncrementStage calls on stage name that wait for
\* the stage's mutex
RECURSIVE Pending(_, _)
Pending(name, ws) ==
  IF ws = {} THEN 0
  ELSE LET w == CHOOSE x \in ws : TRUE
           c == tracker.call[w] IN
       (IF c.pc = "IncrementStage.stage" /\ c.name = name THEN c.increment ELSE 0)
         + Pending(name, ws \ {w})

\* UpdateStage(name, current) up to stage.mu.Lock(): GetStage, and return
\* when there is no such stage
UpdateStage(w, name, current) ==
  /\ tracker.call[w].pc = "idle"
  /\ tracker' =
       IF name \notin DOMAIN tracker.Stages
         THEN [tracker EXCEPT !.direct = TRUE]
         ELSE [tracker EXCEPT !.call[w] = [pc |-> "UpdateStage.stage",
                                           op |-> "UpdateStage", name |-> name,
                                           current |-> current, increment |-> 0],
                              !.direct = TRUE]
  /\ UNCHANGED <<core, summariser, disk, interactive, uploader>>

\* UpdateStage from stage.mu.Lock() to Statistics.mu.Lock(): a current that
\* is not ahead of stage.Current returns; otherwise Current is set and the
\* bar advanced, and the stage's mutex stays held
UpdateStageStage(w) ==
  LET c == tracker.call[w]
      stage == tracker.Stages[c.name]
      increment == c.current - stage.Current
  IN
  /\ c.pc = "UpdateStage.stage"
  /\ stage.mu = Free
  /\ tracker' =
       IF increment <= 0
         THEN [tracker EXCEPT !.call[w] = NoProgressCall]
         ELSE [tracker EXCEPT !.Stages[c.name] =
                                [stage EXCEPT !.Current = c.current,
                                              !.Bar = @ + increment,
                                              !.mu = w],
                              !.call[w].pc = "UpdateStage.stats"]
  /\ UNCHANGED <<core, summariser, disk, interactive, uploader>>

\* UpdateStage from Statistics.mu.Lock() to its return: CurrentPhase is
\* set, and the deferred unlocks release both mutexes
UpdateStageStats(w) ==
  LET c == tracker.call[w] IN
  /\ c.pc = "UpdateStage.stats"
  /\ tracker.Statistics.mu = Free
  /\ tracker' = [tracker EXCEPT !.Statistics.CurrentPhase = c.name,
                                !.Stages[c.name].mu = Free,
                                !.call[w] = NoProgressCall]
  /\ UNCHANGED <<core, summariser, disk, interactive, uploader>>

\* IncrementStage(name, increment) up to stage.mu.Lock()
IncrementStage(w, name, increment) ==
  /\ tracker.call[w].pc = "idle"
  /\ name \in DOMAIN tracker.Stages =>
       tracker.Stages[name].Current + Pending(name, Workers) + increment
         <= MaxCurrent
  /\ tracker' =
       IF name \notin DOMAIN tracker.Stages
         THEN tracker
         ELSE [tracker EXCEPT !.call[w] = [pc |-> "IncrementStage.stage",
                                           op |-> "IncrementStage", name |-> name,
                                           current |-> 0, increment |-> increment]]
  /\ UNCHANGED <<core, summariser, disk, interactive, uploader>>

\* IncrementStage under the stage's mutex: Current grows by increment, and
\* UpdateStage is called with the new Current once the mutex is released
IncrementStageStage(w) ==
  LET c == tracker.call[w]
      stage == tracker.Stages[c.name]
      currentValue == stage.Current + c.increment
  IN
  /\ c.pc = "IncrementStage.stage"
  /\ stage.mu = Free
  /\ tracker' = [tracker EXCEPT !.Stages[c.name].Current = currentValue,
                                !.lastIncremented = c.name,
                                !.call[w].pc = "UpdateStage.stage",
                                !.call[w].current = currentValue]
  /\ UNCHANGED <<core, summariser, disk, interactive, uploader>>

\* the orders in which a range over the map of stages visits them
StageOrders(names) ==
  { o \in [1..Cardinality(names) -> names] :
      \A i, j \in DOMAIN o : i # j => o[i] # o[j] }

\* updateComponents up to stats.mu.Lock(): the display holds its own mutex
\* and is running
updateComponents ==
  /\ tracker.display.pc = "idle"
  /\ tracker' = [tracker EXCEPT !.display.pc = "stats"]
  /\ UNCHANGED <<core, summariser, disk, interactive, uploader>>

\* updateComponents from stats.mu.Lock() to the loop over the stages: the
\* statistics are read with their mutex held until the return
updateComponentsStats ==
  /\ tracker.display.pc = "stats"
  /\ tracker.Statistics.mu = Free
  /\ \E o \in StageOrders(DOMAIN tracker.Stages) :
       tracker' = [tracker EXCEPT !.Statistics.mu = Display,
                                  !.display = [pc |-> "stages", todo |-> o]]
  /\ UNCHANGED <<core, summariser, disk, interactive, uploader>>

\* one round of the loop over the stages: the stage's mutex is taken, its
\* percentage and label are read, and the mutex is released
updateComponentsStage ==
  LET name == Head(tracker.display.todo)
      stage == tracker.Stages[name]
      percent == IF stage.Total > 0 THEN (stage.Current * 100) \div stage.Total
                 ELSE 0
  IN
  /\ tracker.display.pc = "stages"
  /\ tracker.display.todo # <<>>
  /\ stage.mu = Free
  /\ tracker' = [tracker EXCEPT
                   !.gauges[name] = [Percent |-> percent,
                                     Label |-> <<stage.Current, stage.Total>>],
                   !.display.todo = Tail(@)]
  /\ UNCHANGED <<core, summariser, disk, interactive, uploader>>

\* the return of updateComponents: the deferred unlocks
updateComponentsReturn ==
  /\ tracker.display.pc = "stages"
  /\ tracker.display.todo = <<>>
  /\ tracker' = [tracker EXCEPT !.Statistics.mu = Free, !.display = NoRefresh]
  /\ UNCHANGED <<core, summariser, disk, interactive, uploader>>

(***************************************************************************)
(* The interactive display (internal/progress/interactive.go): Start, its  *)
(* event loop, the goroutine that waits for the OS interrupt, and Stop.    *)
(* A channel is "open" or "closed"; closing a closed channel panics, and   *)
(* a panic ends the process.                                               *)
(***************************************************************************)
\* upper bound on the number of goroutines that call Start and Stop
MaxGoroutines == 2

Goroutines == 1..MaxGoroutines
\* the goroutines "go func() { <-sigChan; im.Stop() }()" as holder of im.mu
Signal == MaxGoroutines + 1

ErrAlreadyRunning == "interactive mode is already running"
ErrInitUI == "failed to initialize terminal UI"

\* the key events the loop of Start looks at
Keys == {"q", "<C-c>", "r"}

\* NewInteractiveMode: not running, both channels open, no terminal UI;
\* waiting, locking and stopping count the interrupt goroutines that wait
\* for the signal, that wait for im.mu inside Stop, and that wait for
\* stoppedChan inside Stop
NewInteractiveMode ==
  [running |-> FALSE, mu |-> Free, stopChan |-> "open", stoppedChan |-> "open",
   ShowDetailedView |-> TRUE,
   ui |-> [open |-> FALSE, closes |-> 0],
   pc |-> [g \in Goroutines |-> "idle"],
   ret |-> [g \in Goroutines |-> ErrNil],
   waiting |-> 0, locking |-> 0, stopping |-> 0,
   panicked |-> FALSE]

\* Start up to termui.Init: an error when the display runs already
Start(g) ==
  LET im == interactive IN
  /\ ~im.panicked
  /\ im.pc[g] = "idle"
  /\ im.mu = Free
  /\ interactive' =
       IF im.running THEN [im EXCEPT !.ret[g] = ErrAlreadyRunning]
       ELSE [im EXCEPT !.running = TRUE, !.pc[g] = "Start.Init"]
  /\ UNCHANGED <<core, summariser, disk, tracker, uploader>>

\* Start from termui.Init to its loop: a failed Init returns the error and
\* leaves running set; otherwise the components are made and the goroutine
\* that waits for the interrupt is started
StartInit(g, ok) ==
  LET im == interactive IN
  /\ ~im.panicked
  /\ im.pc[g] = "Start.Init"
  /\ interactive' =
       IF ok THEN [im EXCEPT !.ui.open = TRUE, !.waiting = @ + 1,
                             !.pc[g] = "Start.loop"]
       ELSE [im EXCEPT !.pc[g] = "idle", !.ret[g] = ErrInitUI]
  /\ UNCHANGED <<core, summariser, disk, tracker, uploader>>

\* the loop of Start takes a key event: q and Ctrl-C call Stop, r toggles
\* the detailed view
StartEvent(g, key) ==
  LET im == interactive IN
  /\ ~im.panicked
  /\ im.pc[g] = "Start.loop"
  /\ interactive' =
       IF key = "r" THEN [im EXCEPT !.ShowDetailedView = ~@]
       ELSE [im EXCEPT !.pc[g] = "Start.Stop"]
  /\ UNCHANGED <<core, summariser, disk, tracker, uploader>>

\* the loop of Start finds stopChan closed: termui.Close, close(stoppedChan)
\* and return nil
StartStopped(g) ==
  LET im == interactive IN
  /\ ~im.panicked
  /\ im.pc[g] = "Start.loop"
  /\ im.stopChan = "closed"
  /\ interactive' =
       IF im.stoppedChan = "closed"
         THEN [im EXCEPT !.ui = [open |-> FALSE, closes |-> im.ui.closes + 1],
                         !.panicked = TRUE]
         ELSE [im EXCEPT !.ui = [open |-> FALSE, closes |-> im.ui.closes + 1],
                         !.stoppedChan = "closed",
                         !.pc[g] = "idle", !.ret[g] = ErrNil]
  /\ UNCHANGED <<core, summariser, disk, tracker, uploader>>

\* another caller calls Stop
Stop(g) ==
  LET im == interactive IN
  /\ ~im.panicked
  /\ im.pc[g] = "idle"
  /\ interactive' = [im EXCEPT !.pc[g] = "Stop"]
  /\ UNCHANGED <<core, summariser, disk, tracker, uploader>>

\* Stop from im.mu.Lock() to <-im.stoppedChan, by a caller or by the loop
\* of Start: return when not running, else close(stopChan) with im.mu held
StopLock(g) ==
  LET im == interactive IN
  /\ ~im.panicked
  /\ im.pc[g] \in {"Stop", "Start.Stop"}
  /\ im.mu = Free
  /\ interactive' =
       IF ~im.running THEN [im EXCEPT !.pc[g] = "idle", !.ret[g] = ErrNil]
       ELSE IF im.stopChan = "closed" THEN [im EXCEPT !.panicked = TRUE]
       ELSE [im EXCEPT !.stopChan = "closed", !.mu = g,
                       !.pc[g] = IF im.pc[g] = "Stop" THEN "Stop.wait"
                                 ELSE "Start.Stop.wait"]
  /\ UNCHANGED <<core, summariser, disk, tracker, uploader>>

\* Stop from <-im.stoppedChan to its return, and the return of Start when
\* Stop was called by its loop
StopWait(g) ==
  LET im == interactive IN
  /\ ~im.panicked
  /\ im.pc[g] \in {"Stop.wait", "Start.Stop.wait"}
  /\ im.stoppedChan = "closed"
  /\ interactive' = [im EXCEPT !.running = FALSE, !.mu = Free,
                               !.pc[g] = "idle", !.ret[g] = ErrNil]
  /\ UNCHANGED <<core, summariser, disk, tracker, uploader>>

\* the OS interrupt: signal.Notify hands it to every goroutine that waits
\* for one, and each calls Stop
Interrupt ==
  LET im == interactive IN
  /\ ~im.panicked
  /\ im.waiting > 0
  /\ interactive' = [im EXCEPT !.waiting = 0, !.locking = @ + im.waiting]
  /\ UNCHANGED <<core, summariser, disk, tracker, uploader>>

\* Stop of an interrupt goroutine from im.mu.Lock() to <-im.stoppedChan
SignalStopLock ==
  LET im == interactive IN
  /\ ~im.panicked
  /\ im.locking > 0
  /\ im.mu = Free
  /\ interactive' =
       IF ~im.running THEN [im EXCEPT !.locking = @ - 1]
       ELSE IF im.stopChan = "closed" THEN [im EXCEPT !.panicked = TRUE]
       ELSE [im EXCEPT !.stopChan = "closed", !.mu = Signal,
                       !.locking = @ - 1, !.stopping = @ + 1]
  /\ UNCHANGED <<core, summariser, disk, tracker, uploader>>

\* Stop of an interrupt goroutine from <-im.stoppedChan to its return
SignalStopWait ==
  LET im == interactive IN
  /\ ~im.panicked
  /\ im.stopping > 0
  /\ im.stoppedChan = "closed"
  /\ interactive' = [im EXCEPT !.running = FALSE, !.mu = Free,
                               !.stopping = @ - 1]
  /\ UNCHANGED <<core, summariser, disk, tracker, uploader>>

(***************************************************************************)
(* The uploader (internal/upload/b2uploader.go): Upload, UploadBatch, the  *)
(* workers and Close.  The queue is a buffered channel of tasks; every     *)
(* Upload call has its own result channel of capacity 1, NULL while empty. *)
(***************************************************************************)
\* upper bound on the number of paths of a batch
MaxBatch == 2
\* upper bound on B2Config.Concurrent, the number of workers
MaxConcurrent == 2

\* the capacity of the queue
queueSize == 100

\* the Upload calls: call 0 is made directly, call i > 0 by the goroutine
\* UploadBatch starts for localPaths[i]
UploadCalls == 0..MaxBatch

ErrStat == "failed to stat file"
ErrIsDir == "directories cannot be uploaded directly"
ErrOpen == "failed to open file"
ErrCanceled == "context canceled"

\* what os.Stat finds at the paths uploads are asked for: two files, a
\* directory and nothing
UploadPaths == { <<"/", "d", "/", "f", ".", "T">>, <<"/", "d", "/", "h">>,
                 <<"/", "d">>, <<"/", "m">> }
Stat(path) ==
  IF path = <<"/", "d">> THEN "dir"
  ELSE IF path = <<"/", "m">> THEN "missing"
  ELSE "file"

\* generateRemotePath without a prefix: filepath.Base
generateRemotePath(localPath) == Base(localPath)

\* processUpload: the UploadResult of a task; its Error is set when the
\* file cannot be read any more
processUpload(localPath, remotePath, ok) ==
  [LocalPath |-> localPath, RemotePath |-> remotePath,
   URL |-> IF ok THEN remotePath ELSE <<>>,
   Error |-> IF ok THEN ErrNil ELSE ErrOpen]

\* an Upload call that has not been made
NoUpload == [pc |-> "none", path |-> <<>>, resultChan |-> NULL,
             result |-> NULL, err |-> ErrNil]

\* a store that puts the result into the first entry that is still nil
StoreResultInOrder(results, idx, result) ==
  LET free == {i \in DOMAIN results : IsNull(results[i])} IN
  IF free = {} THEN results
  ELSE [results EXCEPT ![CHOOSE i \in free : \A j \in free : i <= j] = result]

\* results[idx] = result
StoreResult(results, idx, result) == [results EXCEPT ![idx] = result]

\* NewB2Uploader: an empty queue, done open, and Concurrent workers in
\* their select; ctx is the context the callers pass: "background" is
\* never cancelled, "active" can be
NewB2Uploader(concurrent, ctx) ==
  [Concurrent |-> concurrent, queue |-> <<>>, done |-> "open",
   worker |-> [w \in 1..concurrent |-> "select"],
   call |-> [c \in UploadCalls |-> NoUpload],
   ctx |-> ctx,
   batch |-> [pc |-> "none", localPaths |-> <<>>, results |-> <<>>,
              firstErr |-> ErrNil, err |-> ErrNil],
   panicked |-> FALSE]

\* a caller calls Upload(ctx, localPath)
Upload(localPath) ==
  /\ ~uploader.panicked
  /\ uploader.call[0].pc = "none"
  /\ uploader' = [uploader EXCEPT !.call[0] = [NoUpload EXCEPT !.pc = "Upload",
                                                              !.path = localPath]]
  /\ UNCHANGED <<core, summariser, disk, tracker, interactive>>

\* Upload up to the first select: os.Stat fails or finds a directory, and
\* the call returns (nil, err)
UploadStat(c) ==
  LET call == uploader.call[c] IN
  /\ ~uploader.panicked
  /\ call.pc = "Upload"
  /\ uploader' =
       IF Stat(call.path) = "missing"
         THEN [uploader EXCEPT !.call[c] = [call EXCEPT !.pc = "returned",
                                                        !.err = ErrStat]]
       ELSE IF Stat(call.path) = "dir"
         THEN [uploader EXCEPT !.call[c] = [call EXCEPT !.pc = "returned",
                                                        !.err = ErrIsDir]]
       ELSE [uploader EXCEPT !.call[c].pc = "enqueue"]
  /\ UNCHANGED <<core, summariser, disk, tracker, interactive>>

\* the first select of Upload: the task goes into the queue when it has
\* room
UploadEnqueue(c) ==
  LET call == uploader.call[c] IN
  /\ ~uploader.panicked
  /\ call.pc = "enqueue"
  /\ Len(uploader.queue) < queueSize
  /\ uploader' = [uploader EXCEPT
                    !.queue = Append(@, [localPath |-> call.path,
                                         remotePath |-> generateRemotePath(call.path),
                                         resultChan |-> c]),
                    !.call[c].pc = "wait"]
  /\ UNCHANGED <<core, summariser, disk, tracker, interactive>>

\* the second select of Upload: the result has arrived
UploadResult(c) ==
  LET call == uploader.call[c] IN
  /\ ~uploader.panicked
  /\ call.pc = "wait"
  /\ ~IsNull(call.resultChan)
  /\ uploader' = [uploader EXCEPT !.call[c] = [call EXCEPT !.pc = "returned",
                                                          !.resultChan = NULL,
                                                          !.result = call.resultChan]]
  /\ UNCHANGED <<core, summariser, disk, tracker, interactive>>

\* either select of Upload: the context is done, and the call returns
\* (nil, ctx.Err())
UploadCanceled(c) ==
  LET call == uploader.call[c] IN
  /\ ~uploader.panicked
  /\ call.pc \in {"enqueue", "wait"}
  /\ uploader.ctx = "cancelled"
  /\ uploader' = [uploader EXCEPT !.call[c] = [call EXCEPT !.pc = "returned",
                                                          !.err = ErrCanceled]]
  /\ UNCHANGED <<core, summariser, disk, tracker, interactive>>

\* UploadBatch up to wg.Wait(): results of the length of localPaths, all
\* nil, and one goroutine per path that calls Upload
UploadBatch(localPaths) ==
  /\ ~uploader.panicked
  /\ uploader.batch.pc = "none"
  /\ uploader' = [uploader EXCEPT
                    !.batch = [pc |-> "Wait", localPaths |-> localPaths,
                               results |-> [i \in DOMAIN localPaths |-> NULL],
                               firstErr |-> ErrNil, err |-> ErrNil],
                    !.call = [c \in UploadCalls |->
                                IF c \in DOMAIN localPaths
                                  THEN [NoUpload EXCEPT !.pc = "Upload",
                                                        !.path = localPaths[c]]
                                  ELSE @[c]]]
  /\ UNCHANGED <<core, summariser, disk, tracker, interactive>>

\* a goroutine of UploadBatch after its Upload has returned: under the
\* mutex, results[idx] = result and the first error is kept
UploadBatchStore(idx) ==
  LET call == uploader.call[idx]
      batch == uploader.batch IN
  /\ ~uploader.panicked
  /\ idx \in DOMAIN batch.localPaths
  /\ call.pc = "returned"
  /\ uploader' = [uploader EXCEPT
                    !.batch.results = StoreResult(@, idx, call.result),
                    !.batch.firstErr = IF call.err # ErrNil /\ @ = ErrNil
                                         THEN call.err ELSE @,
                    !.call[idx].pc = "done"]
  /\ UNCHANGED <<core, summariser, disk, tracker, interactive>>

\* UploadBatch from wg.Wait() to its return
UploadBatchReturn ==
  LET batch == uploader.batch IN
  /\ ~uploader.panicked
  /\ batch.pc = "Wait"
  /\ \A i \in DOMAIN batch.localPaths : uploader.call[i].pc = "done"
  /\ uploader' = [uploader EXCEPT !.batch.pc = "returned",
                                  !.batch.err = batch.firstErr]
  /\ UNCHANGED <<core, summariser, disk, tracker, interactive>>

\* Close: close(u.done), which panics when done is closed already
Close ==
  /\ ~uploader.panicked
  /\ uploader' = IF uploader.done = "closed"
                   THEN [uploader EXCEPT !.panicked = TRUE]
                   ELSE [uploader EXCEPT !.done = "closed"]
  /\ UNCHANGED <<core, summariser, disk, tracker, interactive>>

\* the caller's context is cancelled
Cancel ==
  /\ ~uploader.panicked
  /\ uploader.ctx = "active"
  /\ uploader' = [uploader EXCEPT !.ctx = "cancelled"]
  /\ UNCHANGED <<core, summariser, disk, tracker, interactive>>

\* a worker takes a task from the queue, processes it and sends the result
\* on the task's channel, which has room for it
WorkerTask(w, ok) ==
  /\ ~uploader.panicked
  /\ uploader.worker[w] = "select"
  /\ uploader.queue # <<>>
  /\ LET task == Head(uploader.queue) IN
       uploader' = [uploader EXCEPT
                      !.queue = Tail(@),
                      !.call[task.resultChan].resultChan =
                         Some(processUpload(task.localPath, task.remotePath, ok))]
  /\ UNCHANGED <<core, summariser, disk, tracker, interactive>>

\* a worker finds done closed and returns
WorkerDone(w) ==
  /\ ~uploader.panicked
  /\ uploader.worker[w] = "select"
  /\ uploader.done = "closed"
  /\ uploader' = [uploader EXCEPT !.worker[w] = "returned"]
  /\ UNCHANGED <<core, summariser, disk, tracker, interactive>>

(***************************************************************************)
(* The collaborators before the pipeline has built them.                   *)
(***************************************************************************)
InitAux ==
  /\ summariser = NewSummariser(DefaultConfig, {})
  /\ disk = NoDisk
  /\ tracker = NewTracker
  /\ interactive = NewInteractiveMode
  /\ uploader = NewB2Uploader(1, "background")

(***************************************************************************)
(* The specification.                                                      *)
(***************************************************************************)
\* db.Open on a fresh file and NewIndexer on a fresh directory: no table,
\* no document; IndexSummaries is whatever the caller configured
Init ==
  /\ schema = FALSE
  /\ files = {}
  /\ seq = 0
  /\ now = 0
  /\ config \in {[IndexSummaries |-> b] : b \in BOOLEAN}
  /\ index = EmptyIndex
  /\ order = <<>>
  /\ pc = Idle
  /\ last = Ret("Open", ErrNil)
  /\ InitAux

\* the manifest store and its callers: the scanner, the status updates and
\* the queries
NextManifest ==
  \/ NewScanner
  \/ Tick
  \/ \E info \in FileInfos : SaveFileInfo(info)
  \/ \E id \in Ids, a \in StatusArgs : UpdateFileStatus(id, a)
  \/ \E path \in Paths : GetFileByPath(path)
  \/ GetUnprocessedFiles
  \/ \E directory \in Directories : GetFilesInDirectory(directory)

SpecManifest == Init /\ [][NextManifest]_vars

\* the index engine over a manifest that its writers keep changing; the
\* clock stands still, every time.Now() reads the same instant
NextIndex ==
  \/ NewScanner
  \/ \E info \in FileInfos : SaveFileInfo(info)
  \/ \E id \in Ids, a \in StatusArgs : UpdateFileStatus(id, a)
  \/ \E fp \in {NULL} \cup {Some(f) : f \in Held} : IndexFile(fp)
  \/ \E id \in Ids : RemoveFile(id)
  \/ \E f \in Held : UpdateFile(f)
  \/ BuildIndex

SpecIndex == Init /\ [][NextIndex]_vars

\* the request of a caller that lists the index
ListRequest ==
  [Query |-> <<>>, Limit |-> 0, Offset |-> 0, SortBy |-> "", SortDesc |-> FALSE,
   FieldName |-> ""]

\* the k-th row of a manifest that the pipeline has processed: /d/f.T, then
\* /d/x2, /d/x3, ...; every third row has the summary "o g", every third "n"
SearchRow(k) ==
  LET p == IF k = 1 THEN <<"/", "d", "/", "f", ".", "T">>
           ELSE <<"/", "d", "/", "x">> \o Itoa(k) IN
  [id |-> k, path |-> p, relative_path |-> Rel(p), size |-> k % 2,
   mod_time |-> 0, is_dir |-> FALSE, content_type |-> "text/plain",
   sha256 |-> "h1", processed |-> TRUE, uploaded_url |-> Some("u1"),
   upload_time |-> Some(0),
   summary |-> Some(IF k % 3 = 1 THEN SummaryOld
                    ELSE IF k % 3 = 2 THEN SummaryNew ELSE <<>>)]

\* the requests searches are made with: pages of the match-all query and of
\* a word every path holds; sorts by a numeric, a text and an unknown field;
\* words with and without a FieldName
Requests ==
  { [Query |-> q, Limit |-> l, Offset |-> o, SortBy |-> "", SortDesc |-> FALSE,
     FieldName |-> ""]
      : q \in {<<>>, <<"d">>}, l \in {-1, 0, 4, 10}, o \in {0, 4, 10, MaxDocs} }
  \cup
  { [Query |-> <<>>, Limit |-> l, Offset |-> o, SortBy |-> "Path",
     SortDesc |-> FALSE, FieldName |-> ""]
      : l \in {-1, 0, 4, 10}, o \in {0, 4, 10, MaxDocs} }
  \cup
  { [Query |-> <<>>, Limit |-> 0, Offset |-> 0, SortBy |-> sb, SortDesc |-> sd,
     FieldName |-> ""]
      : sb \in {"Size", "Path", "Nope"}, sd \in BOOLEAN }
  \cup
  { [Query |-> q, Limit |-> MaxDocs, Offset |-> 0, SortBy |-> "",
     SortDesc |-> FALSE, FieldName |-> fn]
      : q \in {<<"n">>, <<"t">>, <<"d">>},
        fn \in {"", "Summary", "Extension"} }

\* the numbers of documents of the indexes searches run on
DocCounts == {0, 1, 2, 10, 11, MaxDocs}

\* an index of up to MaxDocs documents, written one IndexFile call after
\* the other for the rows of the manifest, by ascending or by descending id
InitSearch ==
  /\ schema = TRUE
  /\ \E n \in DocCounts :
       /\ files = { SearchRow(k) : k \in 1..n }
       /\ seq = n
       /\ order \in { [i \in 1..n |-> Itoa(i)], [i \in 1..n |-> Itoa(n + 1 - i)] }
  /\ now = 0
  /\ config \in {[IndexSummaries |-> b] : b \in BOOLEAN}
  /\ index = [id \in {Itoa(r.id) : r \in files} |->
                IndexFileDoc(ScanRow(CHOOSE r \in files : Itoa(r.id) = id),
                             config, now)]
  /\ pc = Idle
  /\ last = Ret("IndexFile", ErrNil)
  /\ InitAux

\* searches on an index that stays as it is
NextSearch == \E request \in Requests : Search(request)

SpecSearch == InitSearch /\ [][NextSearch]_vars

\* a manifest of up to MaxRows rows that the pipeline has processed, and an
\* index that is still empty
InitConcurrent ==
  /\ schema = TRUE
  /\ \E n \in 1..MaxRows :
       /\ files = { SearchRow(k) : k \in 1..n }
       /\ seq = n
  /\ now = 0
  /\ config \in {[IndexSummaries |-> b] : b \in BOOLEAN}
  /\ index = EmptyIndex
  /\ order = <<>>
  /\ pc = Idle
  /\ last = Ret("UpdateFileStatus", ErrNil)
  /\ InitAux

\* callers that run side by side: the status updates, one UpdateFile call
\* and one BuildIndex call that others may overtake between their index
\* operations, and searches
NextConcurrent ==
  \/ \E id \in Ids, a \in StatusArgs : UpdateFileStatus(id, a)
  \/ \E f \in Held : UpdateFileRemove(f)
  \/ UpdateFileIndex
  \/ BuildIndexLoop
  \/ BuildIndexCommit
  \/ Search(ListRequest)

SpecConcurrent == InitConcurrent /\ [][NextConcurrent]_vars

\* the manifest store and the index engine while a collaborator is looked
\* at on its own: opened, and nothing written
InitCore ==
  /\ schema = FALSE
  /\ files = {}
  /\ seq = 0
  /\ now = 0
  /\ config = [IndexSummaries |-> FALSE]
  /\ index = EmptyIndex
  /\ order = <<>>
  /\ pc = Idle
  /\ last = Ret("Open", ErrNil)

\* the levels, cost caps (0.02 and 0.05 USD) and environments summarisers
\* are built with, and the titles and texts (in words) they are given
Levels == {"none", "default"}
CostCaps == {Cents(2), Cents(5)}
Environments == {{}, {"openai"}, {"ollama", "openai"},
                 {"groq", "anthropic", "openai"}}
Titles == {1}
Texts == {0, 1500, 12000}

InitSummarise ==
  /\ InitCore
  /\ \E level \in Levels, cap \in CostCaps, env \in Environments :
       summariser = NewSummariser([DefaultConfig EXCEPT !.Level = level,
                                                        !.CostCap = cap], env)
  /\ disk = NoDisk
  /\ tracker = NewTracker
  /\ interactive = NewInteractiveMode
  /\ uploader = NewB2Uploader(1, "background")

\* Summarise calls of up to MaxCallers callers, interleaved at the cost
\* tracker's mutex
NextSummarise ==
  \/ \E c \in Callers, title \in Titles, text \in Texts : Summarise(c, title, text)
  \/ \E c \in Callers : SummariseWaterfall(c)
  \/ \E c \in Callers : summarizeWithModel(c)

SpecSummarise == InitSummarise /\ [][NextSummarise]_vars

\* the files a scan found, in the order it found them: two in /d and one
\* in /dx
ScannedPaths == << <<"/", "d", "/", "f", ".", "T">>, <<"/", "d", "/", "h">>,
                  <<"/", "d", "x", "/", "h">> >>
StubPaths == { ScannedPaths[k] : k \in DOMAIN ScannedPaths }

\* the directories stubs are asked for
StubDirectories == { <<"/", "d">>, <<"/", "d", "x", "/">>, <<"/">> }

\* what the pipeline has made of a scanned record: nothing yet, an upload,
\* a local backup without URL, or a directory someone has set a URL for
RowKinds == {"scanned", "uploaded", "local", "dir"}

\* the row of path p with id k after the pipeline has made kind of it
StubRow(k, p, kind) ==
  LET row == NewRow(k, [Path |-> p, RelativePath |-> Rel(p), Size |-> 1,
                        ModTime |-> 0, IsDir |-> kind = "dir",
                        ContentType |-> "text/plain", SHA256 |-> "h1"]) IN
  IF kind = "scanned" THEN row
  ELSE CHOOSE r \in UpdateRows({row}, k, TRUE,
                               IF kind = "local" THEN "" ELSE "u1", 0, <<>>) : TRUE

\* the manifests: every record uploaded, but for one at most
RowKindMaps ==
  { kind \in [DOMAIN ScannedPaths -> RowKinds] :
      Cardinality({k \in DOMAIN ScannedPaths : kind[k] # "uploaded"}) <= 1 }

\* the faults of an environment: one kind of fault, for none of the paths,
\* for one or both of the files in /d, or for all
FaultMaps ==
  { [p \in StubPaths |-> IF p \in S THEN f ELSE "none"]
      : f \in Faults \ {"none"},
        S \in { {}, {ScannedPaths[1]}, {ScannedPaths[2]},
                {ScannedPaths[1], ScannedPaths[2]}, StubPaths } }

\* a manifest with one record per scanned file, every file on disk
InitStub ==
  /\ schema = TRUE
  /\ \E kind \in RowKindMaps :
       files = { StubRow(k, ScannedPaths[k], kind[k]) : k \in DOMAIN ScannedPaths }
  /\ seq = Len(ScannedPaths)
  /\ now = 0
  /\ config = [IndexSummaries |-> FALSE]
  /\ index = EmptyIndex
  /\ order = <<>>
  /\ pc = Idle
  /\ last = Ret("UpdateFileStatus", ErrNil)
  /\ \E fault \in FaultMaps :
       disk = [NoDisk EXCEPT !.content = [p \in StubPaths |-> Original],
                             !.fault = fault]
  /\ summariser = NewSummariser(DefaultConfig, {})
  /\ tracker = NewTracker
  /\ interactive = NewInteractiveMode
  /\ uploader = NewB2Uploader(1, "background")

\* stub creation over a manifest that stays as it is
NextStub ==
  \/ \E p \in StubPaths, mode \in StubModes : CreateStub(p, "u1", mode)
  \/ \E p \in StubPaths, mode \in StubModes : ReplaceWithStub(p, "u1", mode)
  \/ \E d \in StubDirectories, mode \in StubModes : CreateStubsForDirectory(d, mode)

SpecStub == InitStub /\ [][NextStub]_vars

\* the stages executeBackup adds, and one it does not
StageNames == {"process", "upload"}
StageArgs == StageNames \cup {"scan"}

\* the tracker of a backup of MaxCurrent files, and a display whose gauges
\* initializeComponents has made
InitProgress ==
  /\ InitCore
  /\ tracker = [AddStage(AddStage(NewTracker, "process", MaxCurrent),
                         "upload", MaxCurrent)
                  EXCEPT !.gauges = [n \in StageNames |->
                                       [Percent |-> 0, Label |-> <<0, 0>>]]]
  /\ summariser = NewSummariser(DefaultConfig, {})
  /\ disk = NoDisk
  /\ interactive = NewInteractiveMode
  /\ uploader = NewB2Uploader(1, "background")

\* the goroutines of the pipeline report progress while the display
\* refreshes
NextProgress ==
  \/ \E w \in Workers, name \in StageArgs, current \in 0..MaxCurrent :
       UpdateStage(w, name, current)
  \/ \E w \in Workers : UpdateStageStage(w)
  \/ \E w \in Workers : UpdateStageStats(w)
  \/ \E w \in Workers, name \in StageArgs, increment \in 1..MaxCurrent :
       IncrementStage(w, name, increment)
  \/ \E w \in Workers : IncrementStageStage(w)
  \/ updateComponents
  \/ updateComponentsStats
  \/ updateComponentsStage
  \/ updateComponentsReturn

SpecProgress == InitProgress /\ [][NextProgress]_vars

\* a display that NewInteractiveMode has just made
InitInteractive ==
  /\ InitCore
  /\ interactive = NewInteractiveMode
  /\ summariser = NewSummariser(DefaultConfig, {})
  /\ disk = NoDisk
  /\ tracker = NewTracker
  /\ uploader = NewB2Uploader(1, "background")

\* Start and Stop calls, key events and the OS interrupt
NextInteractive ==
  \/ \E g \in Goroutines : Start(g)
  \/ \E g \in Goroutines, ok \in BOOLEAN : StartInit(g, ok)
  \/ \E g \in Goroutines, key \in Keys : StartEvent(g, key)
  \/ \E g \in Goroutines : StartStopped(g)
  \/ \E g \in Goroutines : Stop(g)
  \/ \E g \in Goroutines : StopLock(g)
  \/ \E g \in Goroutines : StopWait(g)
  \/ Interrupt
  \/ SignalStopLock
  \/ SignalStopWait

SpecInteractive == InitInteractive /\ [][NextInteractive]_vars

\* the scheduler runs every goroutine that can take a step: a goroutine
\* inside Start or Stop goes on when its channel is closed, and gets the
\* mutex when it is free again and again (sync.Mutex hands a starved waiter
\* the lock; select picks a ready case at random).  Calls, key events and
\* interrupts come when the environment sends them.
FairInteractive ==
  /\ \A g \in Goroutines :
       /\ WF_vars(\E ok \in BOOLEAN : StartInit(g, ok))
       /\ SF_vars(StartStopped(g))
       /\ SF_vars(StopLock(g))
       /\ WF_vars(StopWait(g))
  /\ SF_vars(SignalStopLock)
  /\ WF_vars(SignalStopWait)

FairSpecInteractive == SpecInteractive /\ FairInteractive

\* the batches UploadBatch is called with
Batches == UNION { [1..n -> UploadPaths] : n \in 0..MaxBatch }

\* an uploader that NewB2Uploader has just made, and the context its
\* callers use
InitUpload ==
  /\ InitCore
  /\ \E concurrent \in 1..MaxConcurrent, ctx \in {"background", "active"} :
       uploader = NewB2Uploader(concurrent, ctx)
  /\ summariser = NewSummariser(DefaultConfig, {})
  /\ disk = NoDisk
  /\ tracker = NewTracker
  /\ interactive = NewInteractiveMode

\* one Upload call, one UploadBatch call, the workers, Close and the
\* cancellation of the context
NextUpload ==
  \/ \E localPath \in UploadPaths : Upload(localPath)
  \/ \E c \in UploadCalls : UploadStat(c)
  \/ \E c \in UploadCalls : UploadEnqueue(c)
  \/ \E c \in UploadCalls : UploadResult(c)
  \/ \E c \in UploadCalls : UploadCanceled(c)
  \/ \E localPaths \in Batches : UploadBatch(localPaths)
  \/ \E idx \in UploadCalls : UploadBatchStore(idx)
  \/ UploadBatchReturn
  \/ Close
  \/ Cancel
  \/ \E w \in DOMAIN uploader.worker, ok \in BOOLEAN : WorkerTask(w, ok)
  \/ \E w \in DOMAIN uploader.worker : WorkerDone(w)

SpecUpload == InitUpload /\ [][NextUpload]_vars

\* the scheduler runs every goroutine that can take a step: the Upload
\* calls, the goroutines of UploadBatch and the workers.  Calls, Close and
\* the cancellation come when the callers make them.
FairUpload ==
  /\ \A c \in UploadCalls :
       /\ WF_vars(UploadStat(c))
       /\ WF_vars(UploadEnqueue(c))
       /\ WF_vars(UploadResult(c))
       /\ WF_vars(UploadCanceled(c))
       /\ WF_vars(UploadBatchStore(c))
  /\ WF_vars(UploadBatchReturn)
  /\ \A w \in 1..MaxConcurrent :
       /\ WF_vars(w \in DOMAIN uploader.worker /\ \E ok \in BOOLEAN : WorkerTask(w, ok))
       /\ WF_vars(w \in DOMAIN uploader.worker /\ WorkerDone(w))

FairSpecUpload == SpecUpload /\ FairUpload

(***************************************************************************)
(* Properties.                                                             *)
(***************************************************************************)
\* the FileRecord of row r as the data model describes it: uploadedURL and
\* summary are empty until they are set
RecordOf(r) ==
  [ID |-> r.id, Path |-> r.path, RelativePath |-> r.relative_path,
   Size |-> r.size, ModTime |-> r.mod_time, IsDir |-> r.is_dir,
   ContentType |-> r.content_type, SHA256 |-> r.sha256,
   Processed |-> r.processed,
   UploadedURL |-> IF IsNull(r.uploaded_url) THEN "" ELSE Val(r.uploaded_url),
   UploadTime |-> r.upload_time,
   Summary |-> IF IsNull(r.summary) THEN <<>> ELSE Val(r.summary)]

SeqRange(s) == {s[i] : i \in 1..Len(s)}

\* s is in strictly ascending path order
AscendingByPath(s) ==
  \A i, j \in 1..Len(s) : i < j => StrLess(s[i].Path, s[j].Path)

\* s begins with p
HasPrefix(s, p) == Len(p) <= Len(s) /\ SubSeq(s, 1, Len(p)) = p

\* path lies lexically under directory dir
Under(dir, path) ==
  HasPrefix(path, IF HasSuffixSlash(dir) THEN dir ELSE dir \o <<"/">>)

\* the query texts searches are made with: one word each
QueryTexts == {<<"o">>, <<"n">>, <<"g">>}

\* the words of q occur in no field of file other than its summary
SummaryOnly(q, file) ==
  Tokens(q) \cap (Tokens(file.Path) \cup Tokens(file.RelativePath)
                   \cup Tokens(Base(file.Path))
                   \cup Tokens(ToLower(Ext(file.Path)))) = {}

\* C1: after a successful BuildIndex the index holds one document per
\* manifest record and no document for any other id, whatever it held
\* before; the returned count and GetDocumentCount() equal the number of
\* manifest records.
C1_RebuildParity ==
  (last.op = "BuildIndex" /\ last.err = ErrNil) =>
    /\ DOMAIN index = {Itoa(r.id) : r \in files}
    /\ last.count = Cardinality(files)
    /\ DocCount(index) = Cardinality(files)

\* C2: upsert is idempotent on path: the manifest holds one record per
\* path, that record has the scan fields of the last upsert of the path,
\* and upserting the same content a second time leaves the record set as
\* the first upsert left it.
C2_UpsertIdempotent ==
  [][ /\ \A r1, r2 \in files' : r1.path = r2.path => r1 = r2
      /\ last'.op = "SaveFileInfo" =>
           LET info == Val(last'.arg) IN
           \E r \in files' :
             /\ r.path = info.Path
             /\ r.size = info.Size
             /\ r.mod_time = info.ModTime
             /\ r.is_dir = info.IsDir
             /\ r.content_type = info.ContentType
             /\ r.sha256 = info.SHA256
      /\ (last.op = "SaveFileInfo" /\ last'.op = "SaveFileInfo"
            /\ last'.arg = last.arg) => files' = files
    ]_vars

\* C3: a record's id is stable: a path keeps the id it was first given
\* through every later step, upserts of the same path included.
C3_IdStable ==
  [][ \A r \in files, q \in files' : q.path = r.path => q.id = r.id ]_vars

\* C4: an upsert of a path that already has a record leaves processed,
\* uploadedURL, uploadTime and summary of that record as they were.
C4_UpsertKeepsStatus ==
  [][ last'.op = "SaveFileInfo" =>
        \A r \in files, q \in files' :
          q.path = r.path =>
            /\ q.processed = r.processed
            /\ q.uploaded_url = r.uploaded_url
            /\ q.upload_time = r.upload_time
            /\ q.summary = r.summary
    ]_vars

\* C5: UpdateFileStatus with an id no record has returns an error and
\* changes no record; it returns nil only when a record has that id.
C5_UpdateStatusNotFound ==
  [][ (last'.op = "UpdateFileStatus"
         /\ ~(\E r \in files : r.id = last'.id)) =>
        (last'.err # ErrNil /\ files' = files)
    ]_vars

\* C6: GetFileByPath returns the stored record for every path the manifest
\* holds, (nil, nil) for a path it does not hold, and an error only when
\* the storage layer fails.
C6_GetByPath ==
  last.op = "GetFileByPath" =>
    IF ~schema THEN last.err # ErrNil
    ELSE /\ last.err = ErrNil
         /\ last.files \in {<<RecordOf(r)>> : r \in {x \in files : x.path = last.path}}
                             \cup (IF \E x \in files : x.path = last.path
                                     THEN {} ELSE {<<>>})

\* C7: GetUnprocessedFiles returns exactly the non-directory records with
\* processed = false, each once, in ascending path order, in every state
\* of the manifest, the state right after a scan included.
C7_ListUnprocessed ==
  (last.op = "GetUnprocessedFiles" /\ schema) =>
    /\ last.err = ErrNil
    /\ SeqRange(last.files) =
         {RecordOf(r) : r \in {x \in files : ~x.is_dir /\ ~x.processed}}
    /\ AscendingByPath(last.files)

\* C8: what GetFilesInDirectory(dir) returns is exactly the records whose
\* path lies lexically under dir, in ascending path order, and never a
\* record outside dir, for every dir.
C8_ListUnderDirectory ==
  (last.op = "GetFilesInDirectory" /\ last.err = ErrNil) =>
    /\ SeqRange(last.files) =
         {RecordOf(r) : r \in {x \in files : Under(last.path, x.path)}}
    /\ AscendingByPath(last.files)

\* the document of file carries every value of file
Carries(doc, file) ==
  /\ doc.ID = Itoa(file.ID)
  /\ doc.Path = file.Path
  /\ doc.RelativePath = file.RelativePath
  /\ doc.Size = file.Size
  /\ doc.ModTime = file.ModTime
  /\ doc.IsDir = file.IsDir
  /\ doc.ContentType = file.ContentType
  /\ doc.UploadedURL = file.UploadedURL

C10_RemoveIdempotent ==
  [][ last'.op = "RemoveFile" =>
        LET id == Itoa(last'.id) IN
        /\ last'.err = ErrNil
        /\ DOMAIN index' = (DOMAIN index) \ {id}
        /\ \A x \in DOMAIN index' : index'[x] = index[x]
        /\ DocCount(index') = IF id \in DOMAIN index THEN DocCount(index) - 1
                              ELSE DocCount(index)
        /\ id \notin DOMAIN index => index' = index
        /\ \A q \in QueryTexts : id \notin SearchIds(index', q)
    ]_vars

\* RemoveFile has deleted a document and left another in the index
C10_Witness ==
  /\ last.op = "RemoveFile"
  /\ last.err = ErrNil
  /\ ~IsNull(last.old)
  /\ Itoa(last.id) \notin DOMAIN index
  /\ DocCount(index) >= 1

\* C11: when BuildIndex fails part-way, the count it returns with the error
\* is the number of documents the call committed to the index, those of the
\* batches committed before the failure.
C11_PartialCount ==
  [][ (last'.op = "BuildIndex" /\ last'.err # ErrNil) =>
        last'.count =
          BuildIndexResult(schema, files, index, config, now).committed
    ]_vars

\* C12: BuildIndex over a manifest without records, the one Open has just
\* created included, returns 0 and no error, and leaves an empty index
\* empty.
C12_RebuildEmpty ==
  [][ (last'.op = "BuildIndex" /\ files = {}) =>
        /\ last'.err = ErrNil
        /\ last'.count = 0
        /\ DocCount(index) = 0 => DocCount(index') = 0
    ]_vars

\* C13: the document IndexFile writes has the decimal string of the
\* record's id as ID, the basename of Path as Name and the lower-cased
\* extension of Path, dot included, as Extension; Extension is empty for
\* every directory and for every file whose name has no extension.
C13_DocumentFields ==
  (last.op = "IndexFile" /\ last.err = ErrNil) =>
    LET file == Val(last.arg)
        doc == index[Itoa(file.ID)] IN
    /\ doc.ID = Itoa(file.ID)
    /\ doc.Name = Base(file.Path)
    /\ doc.Extension = IF file.IsDir THEN <<>> ELSE ToLower(Ext(file.Path))
    /\ (~file.IsDir /\ Ext(file.Path) = <<>>) => doc.Extension = <<>>

\* the results of request without paging: every hit, in the order of the
\* index
AllResults(request) ==
  SearchPage(index, order, [request EXCEPT !.Offset = 0], DocCount(index) + 1)

\* C14: for a fixed index, query and sort, Search(Limit, Offset) returns the
\* entries at positions Offset .. Offset + Limit - 1 of one total ordering
\* of the matches, which holds every match once; a Limit <= 0 counts as 10,
\* an Offset at or beyond the number of matches gives an empty result and no
\* error.
C14_Pagination ==
  last.op = "Search" =>
    LET request == Val(last.arg)
        all == AllResults(request)
        size == IF request.Limit <= 0 THEN 10 ELSE request.Limit
        rest == Len(all) - request.Offset
        n == IF rest <= 0 THEN 0 ELSE IF rest < size THEN rest ELSE size
    IN /\ last.err = ErrNil
       /\ { all[i].ID : i \in 1..Len(all) }
            = { id \in DOMAIN index : Matches(index[id], request) }
       /\ \A i, j \in 1..Len(all) : i # j => all[i].ID # all[j].ID
       /\ last.files = [i \in 1..n |-> all[request.Offset + i]]
       /\ request.Offset >= Len(all) => last.files = <<>>

\* Search with the default limit has returned the matches behind the first
\* 10 of MaxDocs matches (the last 5 of 15)
C14_Witness ==
  /\ last.op = "Search"
  /\ Val(last.arg).Limit <= 0
  /\ Val(last.arg).Offset = 10
  /\ Len(AllResults(Val(last.arg))) = MaxDocs
  /\ Len(last.files) = MaxDocs - 10

\* C15: when SortBy names a field of the document, the results come in the
\* natural order of that field, ascending, or descending when SortDesc is
\* set; results with equal values come by score from high to low, then by
\* id ascending.
C15_SortOrder ==
  (last.op = "Search" /\ Val(last.arg).SortBy \in DocumentFields) =>
    LET request == Val(last.arg)
        f == request.SortBy IN
    \A i, j \in 1..Len(last.files) :
      i < j =>
        LET a == last.files[i]
            b == last.files[j]
            va == index[a.ID][f]
            vb == index[b.ID][f] IN
        IF va # vb
          THEN IF request.SortDesc THEN FieldLess(f, vb, va)
               ELSE FieldLess(f, va, vb)
          ELSE \/ a.Score > b.Score
               \/ (a.Score = b.Score /\ StrLess(a.ID, b.ID))

\* C16: Search with a SortBy that names no field of the document returns an
\* error and no results.
C16_UnknownSortField ==
  (last.op = "Search" /\ Val(last.arg).SortBy # ""
     /\ Val(last.arg).SortBy \notin DocumentFields) =>
    (last.err # ErrNil /\ last.files = <<>>)

\* C17: a search with a Query and a FieldName returns a document only if a
\* term of the query occurs in that field of the document, and, when the
\* page is large enough, returns every such document: one whose Summary
\* holds the term for FieldName = Summary, none whose only match lies in
\* another field for FieldName = Extension.
C17_FieldScope ==
  (last.op = "Search" /\ Val(last.arg).Query # <<>>
     /\ Val(last.arg).FieldName # "") =>
    LET request == Val(last.arg)
        holds(id) == Tokens(request.Query)
                       \cap Tokens(index[id][request.FieldName]) # {} IN
    /\ \A i \in 1..Len(last.files) : holds(last.files[i].ID)
    /\ (request.Offset = 0 /\ request.Limit >= DocCount(index)) =>
         \A id \in DOMAIN index :
           holds(id) => \E i \in 1..Len(last.files) : last.files[i].ID = id

\* a search restricted to Summary has returned some documents and left out
\* others whose path holds the word
C17_Witness ==
  /\ last.op = "Search"
  /\ Val(last.arg).FieldName = "Summary"
  /\ Val(last.arg).Query = <<"d">>
  /\ last.files = <<>>
  /\ DocCount(index) > 0
  /\ \E id \in DOMAIN index : index[id].Summary # <<>>

\* s holds t as a run of characters
Contains(s, t) ==
  \E i \in 1..(Len(s) - Len(t) + 1) : SubSeq(s, i, i + Len(t) - 1) = t

\* C18: after IndexFile(record) with IndexSummaries set, a search over all
\* fields for a term of the record's summary returns one result for the
\* record, with the record's Path and IsDir and a snippet that holds the
\* term; the document count is 1 when the index was empty before.
C18_IndexThenSearch ==
  /\ [](
       (last.op = "IndexFile" /\ last.err = ErrNil /\ config.IndexSummaries) =>
         LET file == Val(last.arg)
             id == Itoa(file.ID) IN
         \A q \in Tokens(file.Summary) :
           LET res == SearchPage(index, order,
                                 [Query |-> q, Limit |-> 0, Offset |-> 0,
                                  SortBy |-> "", SortDesc |-> FALSE,
                                  FieldName |-> ""],
                                 DocCount(index) + 1)
               mine == { i \in 1..Len(res) : res[i].ID = id } IN
           /\ Cardinality(mine) = 1
           /\ \A i \in mine :
                /\ res[i].Path = file.Path
                /\ res[i].IsDir = file.IsDir
                /\ res[i].Snippet # <<>>
                /\ Contains(res[i].Snippet, q) )
  /\ [][ (last'.op = "IndexFile" /\ last'.err = ErrNil /\ config.IndexSummaries
            /\ DocCount(index) = 0) => DocCount(index') = 1 ]_vars

\* IndexFile has written the first document of the index, with a summary
\* of two terms
C18_Witness ==
  /\ last.op = "IndexFile"
  /\ last.err = ErrNil
  /\ config.IndexSummaries
  /\ Val(last.arg).Summary = SummaryOld
  /\ DocCount(index) = 1
  /\ index[Itoa(last.id)].Summary = SummaryOld

\* C19: UpdateFile is one atomic replace for the callers beside it: a
\* search that runs while an UpdateFile of an indexed record is under way
\* finds a document for the record's id, the old one or the new one.
C19_UpdateAtomic ==
  (last.op = "Search" /\ ~IsNull(pc.update) /\ ~IsNull(Val(pc.update).old)) =>
    \E i \in 1..Len(last.files) :
      last.files[i].ID = Itoa(Val(pc.update).file.ID)

\* C20: index mutations exclude each other: when BuildIndex runs beside a
\* status update and an UpdateFile of the same id, the end of BuildIndex
\* never puts a document made from the row it read earlier in the place of
\* a document that carries the manifest's current values.
C20_RebuildSerial ==
  [][ (last'.op = "BuildIndex" /\ ~IsNull(pc.build)) =>
        \A r \in files :
          (/\ ScanOK(r)
           /\ Itoa(r.id) \in DOMAIN index
           /\ index[Itoa(r.id)] = IndexFileDoc(ScanRow(r), config, now))
            => index'[Itoa(r.id)] = index[Itoa(r.id)]
    ]_vars

\* C22: BuildIndex converts records as IndexFile does: a BuildIndex into an
\* empty index leaves, for either setting of IndexSummaries, the documents
\* that one IndexFile call per manifest record leaves (UpdatedAt aside: the
\* clock stands still).
C22_RebuildAsIndexOne ==
  [][ (last'.op = "BuildIndex" /\ index = EmptyIndex /\ schema) =>
        index' = [id \in {Itoa(r.id) : r \in files} |->
                    IndexFileDoc(RecordOf(CHOOSE r \in files : Itoa(r.id) = id),
                                 config, now)]
    ]_vars

\* C23: the status updates of the two collaborators commute: when the
\* upload path of the backup pipeline stores a URL for a record that holds
\* a summary, the record holds that summary and that URL afterwards.
C23_StatusUpdatesCommute ==
  [][ (/\ last'.op = "UpdateFileStatus"
       /\ last'.err = ErrNil
       /\ files' = UpdateRows(files, last'.id, UploadArgs.processed,
                              UploadArgs.uploadedURL, now, UploadArgs.summary)) =>
        \A r \in files :
          (r.id = last'.id /\ ~IsNull(r.summary)) =>
            \E q \in files' :
              /\ q.id = r.id
              /\ q.summary = r.summary
              /\ q.uploaded_url = Some(UploadArgs.uploadedURL)
    ]_vars

\* C21: LLM spend is capped: the total cost the tracker has recorded never
\* exceeds the cost cap and the remaining budget is never negative, for
\* Summarise calls made one after the other or side by side.
C21_CostCapped ==
  /\ GetTotal(summariser.costTracker) <= summariser.costTracker.costCap
  /\ GetRemaining(summariser.costTracker) >= 0

\* the index of the first failed call among results, 0 when none failed
FirstFailure(results) ==
  IF \A i \in DOMAIN results : results[i].err = ErrNil THEN 0
  ELSE CHOOSE i \in DOMAIN results :
         /\ results[i].err # ErrNil
         /\ \A j \in 1..(i - 1) : results[j].err = ErrNil

\* C24: CreateStubsForDirectory returns the number of files it replaced
\* with a stub: only non-directory records under the directory with a
\* non-empty uploadedURL are attempted, every successful replacement adds
\* one to the count, a failed one adds nothing, and the returned error is
\* the first failure.
C24_StubCount ==
  [][ disk'.ret.op = "CreateStubsForDirectory" =>
        LET ret == disk'.ret
            replaced == DOMAIN disk.content \ DOMAIN disk'.content
            first == FirstFailure(ret.results)
        IN
        /\ ret.count = Cardinality(replaced)
        /\ ret.count = Cardinality({i \in DOMAIN ret.results :
                                      ret.results[i].err = ErrNil})
        /\ \A i \in DOMAIN ret.results :
             \E r \in files :
               /\ r.path = ret.results[i].OriginalPath
               /\ ~r.is_dir
               /\ ~IsNull(r.uploaded_url) /\ Val(r.uploaded_url) # ""
               /\ Under(ret.path, r.path)
        /\ first # 0 => ret.err = ret.results[first].err
    ]_vars

C26_NoDeadlock ==
  ~ \E w \in Workers :
      /\ tracker.call[w].pc = "UpdateStage.stats"
      /\ tracker.Stages[tracker.call[w].name].mu = w
      /\ tracker.Statistics.mu = Display
      /\ tracker.display.pc = "stages"
      /\ tracker.display.todo # <<>>
      /\ Head(tracker.display.todo) = tracker.call[w].name

\* C27: after IncrementStage(name, n) calls with n > 0 on existing stages,
\* one after the other or side by side, every stage's bar has advanced by
\* the stage's Current, and CurrentPhase names the stage incremented last.
C27_BarFollowsCurrent ==
  (/\ \A w \in Workers : tracker.call[w].pc = "idle"
   /\ ~tracker.direct) =>
    /\ \A n \in DOMAIN tracker.Stages :
         tracker.Stages[n].Bar = tracker.Stages[n].Current
    /\ tracker.lastIncremented # "" =>
         tracker.Statistics.CurrentPhase = tracker.lastIncremented

\* C28: once Start is running, every stop request completes: a Stop called
\* by the loop of Start on q or Ctrl-C, by the interrupt goroutine or by
\* another caller returns with running = false and the terminal UI closed
\* exactly once, and Start has returned.
C28_StopCompletes ==
  LET stopped == /\ ~interactive.running
                 /\ ~interactive.ui.open
                 /\ interactive.ui.closes = 1
                 /\ \A h \in Goroutines :
                      interactive.pc[h] \notin {"Start.loop", "Start.Stop",
                                                "Start.Stop.wait"}
  IN
  /\ \A g \in Goroutines :
       (interactive.ui.open /\ interactive.pc[g] \in {"Stop", "Start.Stop"})
         ~> (interactive.pc[g] = "idle" /\ stopped)
  /\ (interactive.ui.open /\ interactive.locking > 0)
       ~> (interactive.locking = 0 /\ interactive.stopping = 0 /\ stopped)

\* C29: UploadBatch returns one entry per input path, entry i being the
\* outcome of the Upload of localPaths[i], for every interleaving of the
\* goroutines and the workers; when it returns a nil error no entry is nil.
C29_BatchResults ==
  LET batch == uploader.batch IN
  batch.pc = "returned" =>
    /\ Len(batch.results) = Len(batch.localPaths)
    /\ \A i \in DOMAIN batch.localPaths :
         /\ batch.results[i] = uploader.call[i].result
         /\ ~IsNull(batch.results[i]) =>
              Val(batch.results[i]).LocalPath = batch.localPaths[i]
         /\ IsNull(batch.results[i]) => uploader.call[i].err # ErrNil
    /\ batch.err = ErrNil => \A i \in DOMAIN batch.results : ~IsNull(batch.results[i])

\* C29 witness: a batch of two different files has returned without error
C29_Witness ==
  LET batch == uploader.batch IN
  /\ batch.pc = "returned"
  /\ batch.err = ErrNil
  /\ Len(batch.localPaths) = 2
  /\ batch.localPaths[1] # batch.localPaths[2]
  /\ \A i \in DOMAIN batch.results :
       /\ ~IsNull(batch.results[i])
       /\ Val(batch.results[i]).LocalPath = batch.localPaths[i]

\* C30: every Upload call returns, with a result or with the context's
\* error, also when its context is never cancelled and it is queued when,
\* or made after, Close is called.  A process that a second Close has
\* brought down is not held against the calls it ends.
C30_UploadReturns ==
  \A c \in UploadCalls :
    (uploader.call[c].pc \in {"Upload", "enqueue", "wait"})
      ~> (uploader.call[c].pc \in {"returned", "done"} \/ uploader.panicked)

====
